---------------------------- MODULE Spec2Model ----------------------------
(***************************************************************************)
(* MIDA certificate tracking: the balance ledger (import records, the      *)
(* per-port remaining quantities and the derived quantity status) and the  *)
(* invoice-to-certificate item matcher.                                    *)
(*                                                                         *)
(* Quantities are NUMERIC(18,3) in the database; the model counts them in  *)
(* thousandths, as integers.  A nullable column holds the empty set for    *)
(* SQL NULL / Python None and a singleton {v} for the value v.             *)
(***************************************************************************)
EXTENDS Integers, Sequences, FiniteSets, TLC

VARIABLES
    items,              \* mida_certificate_items rows, by item id
    records,            \* mida_import_records rows (a set of rows)
    next_id,            \* creation order of the next import record (created_at)
    default_threshold,  \* mida_settings.default_warning_threshold
    lastOp,             \* the last request handled and how it ended
    derivation,         \* one status derivation: its inputs, the place, its result
    sessions,           \* concurrent record_import calls: position and locals
    row_lock,           \* the session holding the item row's lock, if any
    uncommitted,        \* the database as the lock holder's transaction sees it
    threshold_session,  \* a concurrent update_item_threshold call: position and locals
    invoice_items,      \* match_items: the invoice items of the call
    mida_items,         \* match_items: the certificate items of the call
    match_mode,         \* match_items: mode, "exact" or "fuzzy"
    match_threshold,    \* match_items: threshold, the minimum fuzzy score in hundredths
    matches,            \* match_items: the MatchResults so far, in invoice order
    unmatched,          \* match_items: the invoice items left without a match
    all_warnings,       \* match_items: the warnings of all matches so far
    used_mida_indices,  \* match_items: certificate items already matched
    remaining_qtys,     \* match_items: simulated remaining quantity per certificate item
    first_result,       \* the MatchingResult of an earlier call on the same arguments
    certificates,       \* mida_certificates rows with their items, by certificate id
    lastCertOp          \* the last certificate request handled and how it ended

ledgerVars == <<items, records, next_id, default_threshold, lastOp>>

statusVars == <<derivation>>

concVars == <<sessions, row_lock, uncommitted, threshold_session>>

matchInputs == <<invoice_items, mida_items, match_mode, match_threshold>>

matchLocals == <<matches, unmatched, all_warnings, used_mida_indices, remaining_qtys>>

matchVars == <<matchInputs, matchLocals, first_result>>

certVars == <<certificates, lastCertOp>>

nonLedgerVars == <<statusVars, concVars, matchVars, certVars>>

vars == <<ledgerVars, statusVars, concVars, matchVars, certVars>>

(***************************************************************************)
(* Bounds of the model.                                                    *)
(***************************************************************************)
MaxRecords == 2         \* import records ever created
MaxDate == 2            \* import dates are 1..MaxDate
MaxImportQty == 2       \* quantity_imported is 1..MaxImportQty
MaxBulk == 2            \* records in one bulk request
MaxThreshold == 1       \* thresholds set by a request are 0..MaxThreshold
MaxRemaining == 3       \* a status is derived for remaining -1..MaxRemaining
MaxInvoiceItems == 2    \* invoice items in one match_items call
MaxMidaItems == 2       \* certificate items in one match_items call

(***************************************************************************)
(* Nullable values.                                                        *)
(***************************************************************************)
None == {}
Some(v) == {v}
IsNone(x) == x = {}
Val(x) == CHOOSE v \in x : TRUE
\* Python "x or Decimal(0)" / SQL COALESCE(x, 0)
OrZero(x) == IF x = {} THEN 0 ELSE Val(x)

ImportPort == {"port_klang", "klia", "bukit_kayu_hitam"}

QuantityStatus == {"normal", "warning", "depleted", "overdrawn"}

DEFAULT_WARNING_THRESHOLD == 100

Items == {"item1"}
NoSuchItem == "missing"
ItemIds == Items \cup {NoSuchItem}


Dates == 1..MaxDate
ImportQtys == 1..MaxImportQty

(***************************************************************************)
(* The database as one value, so that a request handler is a function from *)
(* the session's view of the database to the database it leaves.           *)
(***************************************************************************)
Database(its, recs, nid, dflt) ==
    [items |-> its, records |-> recs, next_id |-> nid, default_threshold |-> dflt]

\* get_default_warning_threshold: Decimal(value) if value else Decimal("100")
get_default_warning_threshold(db) ==
    IF IsNone(db.default_threshold) THEN DEFAULT_WARNING_THRESHOLD
    ELSE Val(db.default_threshold)

\* (mutant) warning only strictly below the threshold
calculate_quantity_status_strict(p_remaining, p_warning_threshold, p_default_threshold) ==
    LET v_threshold == IF IsNone(p_warning_threshold) THEN p_default_threshold
                       ELSE Val(p_warning_threshold)
    IN  IF IsNone(p_remaining) THEN "normal"
        ELSE IF Val(p_remaining) < 0 THEN "overdrawn"
        ELSE IF Val(p_remaining) = 0 THEN "depleted"
        ELSE IF Val(p_remaining) < v_threshold THEN "warning"
        ELSE "normal"

\* The SQL function calculate_quantity_status(p_remaining, p_warning_threshold,
\* p_default_threshold); the first two arguments are nullable.
calculate_quantity_status(p_remaining, p_warning_threshold, p_default_threshold) ==
    LET v_threshold == IF IsNone(p_warning_threshold) THEN p_default_threshold
                       ELSE Val(p_warning_threshold)
    IN  IF IsNone(p_remaining) THEN "normal"
        ELSE IF Val(p_remaining) < 0 THEN "overdrawn"
        ELSE IF Val(p_remaining) = 0 THEN "depleted"
        ELSE IF Val(p_remaining) <= v_threshold THEN "warning"
        ELSE "normal"

\* The row trigger trg_initialize_remaining_quantities (BEFORE INSERT on items)
\* applied to an item built by _build_item_model: the remaining_* columns are
\* not given, warning_threshold is NULL, quantity_status is 'normal'.
initialize_remaining_quantities(approved_quantity, port_qty) ==
    [approved_quantity  |-> approved_quantity,
     port_qty           |-> port_qty,
     remaining_quantity |-> approved_quantity,
     remaining          |-> port_qty,
     warning_threshold  |-> None,
     quantity_status    |-> "normal"]

\* get_current_balance_for_port: the item's remaining_<port> (nullable)
get_current_balance_for_port(db, item_id, port) ==
    IF item_id \notin DOMAIN db.items THEN None
    ELSE IF port \in ImportPort THEN db.items[item_id].remaining[port]
    ELSE None

\* (mutant) the trigger decrements the total only, not the port column
update_item_balance_total_only(db, new_row) ==
    LET it == db.items[new_row.certificate_item_id]
        upd == [it EXCEPT
                  !.remaining_quantity = Some(OrZero(@) - new_row.quantity_imported)]
    IN  [db EXCEPT !.items[new_row.certificate_item_id] =
            [upd EXCEPT !.quantity_status =
                calculate_quantity_status(upd.remaining_quantity, upd.warning_threshold,
                                          get_default_warning_threshold(db))]]

\* The row trigger trg_update_item_balance_after_import (AFTER INSERT on
\* mida_import_records), applied to the inserted row.
update_item_balance_after_import(db, new_row) ==
    LET v_default_threshold == get_default_warning_threshold(db)
        it == db.items[new_row.certificate_item_id]
        \* NULL - q is NULL; COALESCE(remaining_quantity, 0) - q
        upd == [it EXCEPT
                  !.remaining[new_row.port] =
                      IF IsNone(@) THEN None ELSE Some(Val(@) - new_row.quantity_imported),
                  !.remaining_quantity = Some(OrZero(@) - new_row.quantity_imported)]
        v_new_status == calculate_quantity_status(
                            upd.remaining_quantity, upd.warning_threshold,
                            v_default_threshold)
    IN  [db EXCEPT !.items[new_row.certificate_item_id] =
                       [upd EXCEPT !.quantity_status = v_new_status]]

\* create_import_record: INSERT the row (created_at = now()), which fires the trigger
create_import_record(db, certificate_item_id, import_date, quantity_imported, port, balance_before, balance_after) ==
    LET record == [id                  |-> db.next_id,
                   created_at          |-> db.next_id,
                   certificate_item_id |-> certificate_item_id,
                   import_date         |-> import_date,
                   quantity_imported   |-> quantity_imported,
                   port                |-> port,
                   balance_before      |-> balance_before,
                   balance_after       |-> balance_after]
        inserted == [db EXCEPT !.records = @ \cup {record}, !.next_id = @ + 1]
    IN  update_item_balance_after_import(inserted, record)


(***************************************************************************)
(* Import service: record_import and record_bulk_imports.                  *)
(***************************************************************************)
Failed(err, db) == [err |-> err, db |-> db, record_id |-> 0]

\* (mutant) the overdraw check looks at the balance before the import
record_import_checks_before(db, import_data, allow_overdraw) ==
    LET item_id == import_data.certificate_item_id
        port    == import_data.port
    IN  IF item_id \notin DOMAIN db.items
        THEN Failed("ItemNotFound", db)
        ELSE
        LET current   == get_current_balance_for_port(db, item_id, port)
            allocated == db.items[item_id].port_qty[port]
        IN  IF IsNone(current) /\ IsNone(allocated)
            THEN Failed("InvalidPort", db)
            ELSE
            LET current_balance == IF IsNone(current) THEN Val(allocated) ELSE Val(current)
                balance_after   == current_balance - import_data.quantity_imported
            IN  IF ~allow_overdraw /\ current_balance < 0
                THEN Failed("InsufficientBalance", db)
                ELSE [err |-> "ok",
                      db  |-> create_import_record(db, item_id, import_data.import_date,
                                  import_data.quantity_imported, port,
                                  current_balance, balance_after),
                      record_id |-> db.next_id]

\* record_import up to the overdraw check: the balance it read, or the error
\* it raises.  The balance is read without a row lock (for_update is False).
read_current_balance(db, import_data, allow_overdraw) ==
    LET item_id == import_data.certificate_item_id
        port    == import_data.port
        Raise(err) == [err |-> err, current_balance |-> 0]
    IN  IF item_id \notin DOMAIN db.items
        THEN Raise("ItemNotFound")
        ELSE
        LET item      == db.items[item_id]
            current   == get_current_balance_for_port(db, item_id, port)
            allocated == item.port_qty[port]
        IN  IF IsNone(current) /\ IsNone(allocated)
            THEN Raise("InvalidPort")
            ELSE
            LET current_balance == IF IsNone(current) THEN Val(allocated) ELSE Val(current)
                balance_after   == current_balance - import_data.quantity_imported
            IN  IF ~allow_overdraw /\ balance_after < 0
                THEN Raise("InsufficientBalance")
                ELSE [err |-> "ok", current_balance |-> current_balance]

\* (mutant) the record starts from the approved quantity of the port
insert_import_record_from_approved(db, import_data, current_balance) ==
    LET approved == OrZero(db.items[import_data.certificate_item_id]
                             .port_qty[import_data.port])
    IN  create_import_record(db, import_data.certificate_item_id, import_data.import_date,
                             import_data.quantity_imported, import_data.port,
                             approved, approved - import_data.quantity_imported)

\* record_import from create_import_record on, given the balance read before
insert_import_record(db, import_data, current_balance) ==
    create_import_record(db, import_data.certificate_item_id, import_data.import_date,
                         import_data.quantity_imported, import_data.port,
                         current_balance, current_balance - import_data.quantity_imported)

\* record_import(db, import_data, allow_overdraw): the database the session
\* holds when it returns or raises.  A successful call ends with db.commit().
record_import(db, import_data, allow_overdraw) ==
    LET checked == read_current_balance(db, import_data, allow_overdraw)
    IN  IF checked.err # "ok"
        THEN Failed(checked.err, db)
        ELSE [err |-> "ok",
              db  |-> insert_import_record(db, import_data, checked.current_balance),
              record_id |-> db.next_id]

\* record_bulk_imports: record_import for each entry in turn.  `session` is
\* what the session sees, `committed` what the last db.commit() made durable;
\* an ImportError is re-raised and the session is closed by get_db, which
\* discards only what was not committed.
RECURSIVE record_bulk_imports(_, _, _, _)
record_bulk_imports(session, committed, imports, allow_overdraw) ==
    IF imports = <<>> THEN [err |-> "ok", db |-> committed]
    ELSE LET result == record_import(session, Head(imports), allow_overdraw)
         IN  IF result.err # "ok"
             THEN [err |-> result.err, db |-> committed]
             ELSE record_bulk_imports(result.db, result.db, Tail(imports), allow_overdraw)

(***************************************************************************)
(* Repository: balance recalculation.                                      *)
(***************************************************************************)
\* ORDER BY import_date, created_at
OrderedBefore(a, b) ==
    \/ a.import_date < b.import_date
    \/ a.import_date = b.import_date /\ a.created_at < b.created_at

RECURSIVE OrderRecords(_)
OrderRecords(S) ==
    IF S = {} THEN <<>>
    ELSE LET first == CHOOSE r \in S : \A o \in S \ {r} : OrderedBefore(r, o)
         IN  <<first>> \o OrderRecords(S \ {first})

\* (mutant) the loop patches each record's stored balance_after
RECURSIVE ReplayBalancesPatching(_, _)
ReplayBalancesPatching(recs, current_balance) ==
    IF recs = <<>> THEN {}
    ELSE LET record == Head(recs)
             after  == record.balance_after - record.quantity_imported
         IN  {[record EXCEPT !.balance_before = current_balance,
                             !.balance_after  = after]}
             \cup ReplayBalancesPatching(Tail(recs), after)

\* the loop of recalculate_item_port_balances over the ordered records
RECURSIVE ReplayBalances(_, _)
ReplayBalances(recs, current_balance) ==
    IF recs = <<>> THEN {}
    ELSE LET record == Head(recs)
             after  == current_balance - record.quantity_imported
         IN  {[record EXCEPT !.balance_before = current_balance,
                             !.balance_after  = after]}
             \cup ReplayBalances(Tail(recs), after)

PortRecords(db, item_id, port) ==
    {r \in db.records : r.certificate_item_id = item_id /\ r.port = port}

\* (mutant) the replay starts from the remaining quantity of the port
recalculate_item_port_balances_from_remaining(db, certificate_item_id, port) ==
    IF certificate_item_id \notin DOMAIN db.items THEN db
    ELSE IF port \notin ImportPort THEN db
    ELSE LET item         == db.items[certificate_item_id]
             approved_qty == OrZero(item.remaining[port])
             mine         == PortRecords(db, certificate_item_id, port)
         IN  [db EXCEPT !.records =
                 (@ \ mine) \cup ReplayBalances(OrderRecords(mine), approved_qty)]

recalculate_item_port_balances(db, certificate_item_id, port) ==
    IF certificate_item_id \notin DOMAIN db.items THEN db
    ELSE IF port \notin ImportPort THEN db
    ELSE LET item         == db.items[certificate_item_id]
             approved_qty == OrZero(item.port_qty[port])
             mine         == PortRecords(db, certificate_item_id, port)
         IN  [db EXCEPT !.records =
                 (@ \ mine) \cup ReplayBalances(OrderRecords(mine), approved_qty)]

RECURSIVE SumImported(_)
SumImported(S) ==
    IF S = {} THEN 0
    ELSE LET r == CHOOSE x \in S : TRUE
         IN  r.quantity_imported + SumImported(S \ {r})

\* the status branch of recalculate_item_remaining_quantities (lines 146-153)
recalculated_status(remaining_quantity, threshold) ==
    IF remaining_quantity < 0 THEN "overdrawn"
    ELSE IF remaining_quantity = 0 THEN "depleted"
    ELSE IF remaining_quantity <= threshold THEN "warning"
    ELSE "normal"

recalculate_item_remaining_quantities(db, certificate_item_id) ==
    IF certificate_item_id \notin DOMAIN db.items THEN db
    ELSE LET item == db.items[certificate_item_id]
             imported_by_port == [p \in ImportPort |->
                                    SumImported(PortRecords(db, certificate_item_id, p))]
             remaining == [p \in ImportPort |->
                             OrZero(item.port_qty[p]) - imported_by_port[p]]
             remaining_quantity == remaining["port_klang"] + remaining["klia"]
                                   + remaining["bukit_kayu_hitam"]
             default_thr == get_default_warning_threshold(db)
             threshold == IF IsNone(item.warning_threshold) THEN default_thr
                          ELSE Val(item.warning_threshold)
         IN  [db EXCEPT !.items[certificate_item_id] =
                 [item EXCEPT
                    !.remaining = [p \in ImportPort |-> Some(remaining[p])],
                    !.remaining_quantity = Some(remaining_quantity),
                    !.quantity_status = recalculated_status(remaining_quantity, threshold)]]


(***************************************************************************)
(* Repository: corrective edit and delete of an import record, thresholds. *)
(***************************************************************************)
RecordById(db, record_id) == CHOOSE r \in db.records : r.id = record_id

\* (mutant) after a change of port only the new port is recalculated
update_import_record_new_port_only(db, record_id, import_date, quantity_imported, port) ==
    IF ~\E r \in db.records : r.id = record_id THEN [found |-> FALSE, db |-> db]
    ELSE
    LET record  == RecordById(db, record_id)
        updated == [record EXCEPT
                      !.import_date = IF IsNone(import_date) THEN @ ELSE Val(import_date),
                      !.quantity_imported =
                          IF IsNone(quantity_imported) THEN @ ELSE Val(quantity_imported),
                      !.port = IF IsNone(port) THEN @ ELSE Val(port)]
        flushed == [db EXCEPT !.records = (@ \ {record}) \cup {updated}]
    IN  [found |-> TRUE,
         db |-> recalculate_item_remaining_quantities(
                    recalculate_item_port_balances(flushed, record.certificate_item_id,
                                                   updated.port),
                    record.certificate_item_id)]

\* update_import_record; import_date, quantity_imported and port are Optional
update_import_record(db, record_id, import_date, quantity_imported, port) ==
    IF ~\E r \in db.records : r.id = record_id THEN [found |-> FALSE, db |-> db]
    ELSE
    LET record           == RecordById(db, record_id)
        original_port    == record.port
        original_item_id == record.certificate_item_id
        port_changed     == ~IsNone(port) /\ Val(port) # original_port
        needs_recalculation ==
            ~IsNone(quantity_imported) \/ ~IsNone(import_date) \/ port_changed
        updated == [record EXCEPT
                      !.import_date = IF IsNone(import_date) THEN @ ELSE Val(import_date),
                      !.quantity_imported =
                          IF IsNone(quantity_imported) THEN @ ELSE Val(quantity_imported),
                      !.port = IF IsNone(port) THEN @ ELSE Val(port)]
        flushed == [db EXCEPT !.records = (@ \ {record}) \cup {updated}]
        rebalanced ==
            IF port_changed
            THEN recalculate_item_port_balances(
                     recalculate_item_port_balances(flushed, original_item_id, original_port),
                     original_item_id, Val(port))
            ELSE recalculate_item_port_balances(flushed, original_item_id, updated.port)
    IN  [found |-> TRUE,
         db |-> IF needs_recalculation
                THEN recalculate_item_remaining_quantities(rebalanced, original_item_id)
                ELSE flushed]

delete_import_record(db, record_id) ==
    IF ~\E r \in db.records : r.id = record_id THEN [found |-> FALSE, db |-> db]
    ELSE
    LET record  == RecordById(db, record_id)
        certificate_item_id == record.certificate_item_id
        port    == record.port
        deleted == [db EXCEPT !.records = @ \ {record}]
    IN  [found |-> TRUE,
         db |-> recalculate_item_remaining_quantities(
                    recalculate_item_port_balances(deleted, certificate_item_id, port),
                    certificate_item_id)]

\* the status branch of update_item_warning_threshold (lines 497-505)
threshold_status(item, threshold) ==
    IF IsNone(item.remaining_quantity) THEN item.quantity_status
    ELSE IF Val(item.remaining_quantity) < 0 THEN "overdrawn"
    ELSE IF Val(item.remaining_quantity) = 0 THEN "depleted"
    ELSE IF Val(item.remaining_quantity) <= threshold THEN "warning"
    ELSE "normal"

\* (mutant) the threshold is stored and the status is left as it was
update_item_warning_threshold_only(db, item_id, warning_threshold) ==
    IF item_id \notin DOMAIN db.items THEN [found |-> FALSE, db |-> db]
    ELSE [found |-> TRUE,
          db |-> [db EXCEPT !.items[item_id].warning_threshold = warning_threshold]]

update_item_warning_threshold(db, item_id, warning_threshold) ==
    IF item_id \notin DOMAIN db.items THEN [found |-> FALSE, db |-> db]
    ELSE
    LET item == [db.items[item_id] EXCEPT !.warning_threshold = warning_threshold]
        default_thr == get_default_warning_threshold(db)
        threshold == IF IsNone(warning_threshold) THEN default_thr
                     ELSE Val(warning_threshold)
    IN  [found |-> TRUE,
         db |-> [db EXCEPT !.items[item_id] =
                    [item EXCEPT !.quantity_status = threshold_status(item, threshold)]]]

\* update_default_warning_threshold: UPDATE mida_settings SET setting_value = ...
update_default_warning_threshold(db, threshold) ==
    [db EXCEPT !.default_threshold = Some(threshold)]


(***************************************************************************)
(* The ledger as a state machine: one action per request handler.          *)
(***************************************************************************)
ThresholdChoices == 0..MaxThreshold

\* Certificate items as created by create_or_replace_draft: the approved
\* total and the three station quantities are independent optional inputs.
\* <<approved_quantity, port_klang_qty, klia_qty, bukit_kayu_hitam_qty>>
ItemFixtures ==
    { <<Some(3), Some(2), Some(1), None>>,     \* total = sum, one station unset
      <<Some(3), Some(2), Some(1), Some(0)>>,  \* every station set
      <<Some(3), Some(2), None, None>>,        \* total above the station sum
      <<None, Some(1), None, None>>,           \* no approved total
      <<Some(2), None, None, None>> }          \* no station split at all

NewItem(f) ==
    initialize_remaining_quantities(
        f[1], [p \in ImportPort |-> IF p = "port_klang" THEN f[2]
                                    ELSE IF p = "klia" THEN f[3] ELSE f[4]])

CurrentDb == Database(items, records, next_id, default_threshold)

Install(db) ==
    /\ items' = db.items
    /\ records' = db.records
    /\ next_id' = db.next_id
    /\ default_threshold' = db.default_threshold

Op(op, port, allow_overdraw, err) ==
    [op |-> op, port |-> port, allow_overdraw |-> allow_overdraw, err |-> err]

NoPort == "-"

ImportRequests(dates, qtys) ==
    [certificate_item_id : ItemIds, port : ImportPort,
     import_date : dates, quantity_imported : qtys]

LedgerInit ==
    /\ items \in [Items -> {NewItem(f) : f \in ItemFixtures}]
    /\ records = {}
    /\ next_id = 1
    /\ default_threshold = Some(DEFAULT_WARNING_THRESHOLD)
    /\ lastOp = Op("init", NoPort, TRUE, "ok")

\* POST /imports: create_import -> record_import
RecordImport ==
    \E import_data \in ImportRequests(Dates, ImportQtys), allow_overdraw \in BOOLEAN :
        /\ next_id <= MaxRecords
        /\ LET result == record_import(CurrentDb, import_data, allow_overdraw)
           IN  /\ Install(result.db)
               /\ lastOp' = Op("commit", import_data.port, allow_overdraw, result.err)
               /\ UNCHANGED nonLedgerVars

\* POST /imports/bulk: create_bulk_imports -> record_bulk_imports
RecordBulkImports ==
    \E n \in 1..MaxBulk, allow_overdraw \in BOOLEAN :
      \E imports \in [1..n -> ImportRequests({MaxDate}, ImportQtys)] :
        /\ next_id + n - 1 <= MaxRecords
        /\ LET result == record_bulk_imports(CurrentDb, CurrentDb, imports, allow_overdraw)
           IN  /\ Install(result.db)
               /\ lastOp' = Op("bulk", NoPort, allow_overdraw, result.err)
               /\ UNCHANGED nonLedgerVars

RecordIds == 1..MaxRecords

\* corrective edit of a stored record: update_import_record, then commit
UpdateImportRecord ==
    \E record_id \in RecordIds,
       import_date \in {None} \cup {Some(d) : d \in Dates},
       quantity_imported \in {None} \cup {Some(q) : q \in ImportQtys},
       port \in {None} \cup {Some(p) : p \in ImportPort} :
        LET result == update_import_record(CurrentDb, record_id, import_date,
                                           quantity_imported, port)
        IN  /\ result.found
            /\ Install(result.db)
            /\ lastOp' = Op("edit", NoPort, TRUE, "ok")
            /\ UNCHANGED nonLedgerVars

\* delete of a stored record: delete_import_record, then commit
DeleteImportRecord ==
    \E record_id \in RecordIds :
        LET result == delete_import_record(CurrentDb, record_id)
        IN  /\ result.found
            /\ Install(result.db)
            /\ lastOp' = Op("delete", NoPort, TRUE, "ok")
            /\ UNCHANGED nonLedgerVars

\* PUT /imports/balances/{item_id}/threshold: update_item_threshold
UpdateItemThreshold ==
    \E item_id \in ItemIds,
       warning_threshold \in {None} \cup {Some(t) : t \in ThresholdChoices} :
        LET result == update_item_warning_threshold(CurrentDb, item_id, warning_threshold)
        IN  /\ result.found
            /\ Install(result.db)
            /\ lastOp' = Op("item_threshold", NoPort, TRUE, "ok")
            /\ UNCHANGED nonLedgerVars

\* PUT /imports/settings/threshold: update_default_threshold
UpdateDefaultThreshold ==
    \E threshold \in ThresholdChoices :
        /\ Install(update_default_warning_threshold(CurrentDb, threshold))
        /\ lastOp' = Op("default_threshold", NoPort, TRUE, "ok")
        /\ UNCHANGED nonLedgerVars

\* recalc(item, port): recalculate_item_port_balances, then
\* recalculate_item_remaining_quantities, then commit
Recalculate ==
    \E item_id \in Items, port \in ImportPort :
        /\ Install(recalculate_item_remaining_quantities(
                       recalculate_item_port_balances(CurrentDb, item_id, port), item_id))
        /\ lastOp' = Op("recalc", port, TRUE, "ok")
        /\ UNCHANGED nonLedgerVars

(***************************************************************************)
(* The places that derive a quantity status, each applied to one case.     *)
(***************************************************************************)
\* preview_import: new_status from the balance after the import
preview_new_status(balance_after, threshold) ==
    IF balance_after < 0 THEN "overdrawn"
    ELSE IF balance_after = 0 THEN "depleted"
    ELSE IF balance_after <= threshold THEN "warning"
    ELSE "normal"

Derivation(remaining, warning_threshold, default_thr, place, status) ==
    [remaining |-> remaining, warning_threshold |-> warning_threshold,
     default_threshold |-> default_thr, place |-> place, status |-> status]

NoDerivation == Derivation(None, None, DEFAULT_WARNING_THRESHOLD, "none", "normal")

StatusIdle == derivation = NoDerivation

RemainingChoices == {None} \cup {Some(r) : r \in -1..MaxRemaining}

\* thresholds are validated ge=0; the stored default starts at 100
StatusInit ==
    \E remaining \in RemainingChoices,
       warning_threshold \in {None} \cup {Some(t) : t \in 0..MaxThreshold + 1},
       default_thr \in (0..MaxThreshold + 1) \cup {DEFAULT_WARNING_THRESHOLD} :
        derivation = Derivation(remaining, warning_threshold, default_thr, "none", "normal")

\* threshold = item.warning_threshold if not None else default_threshold
CaseThreshold ==
    IF IsNone(derivation.warning_threshold) THEN derivation.default_threshold
    ELSE Val(derivation.warning_threshold)

Derived(place, status) ==
    /\ derivation.place = "none"
    /\ derivation' = [derivation EXCEPT !.place = place, !.status = status]
    /\ UNCHANGED <<ledgerVars, concVars, matchVars, certVars>>

\* the insert trigger: calculate_quantity_status(v_new_remaining, v_item_threshold, ...)
TriggerDerives ==
    Derived("trigger",
            calculate_quantity_status(derivation.remaining, derivation.warning_threshold,
                                      derivation.default_threshold))

\* recalculate_item_remaining_quantities: remaining_quantity is a computed sum
RecalculationDerives ==
    /\ ~IsNone(derivation.remaining)
    /\ Derived("recalculate", recalculated_status(Val(derivation.remaining), CaseThreshold))

\* update_item_warning_threshold on an item holding the remaining quantity;
\* an item whose remaining_quantity is NULL has never left status 'normal'
ThresholdUpdateDerives ==
    Derived("threshold",
            threshold_status([remaining_quantity |-> derivation.remaining,
                              quantity_status |-> "normal"], CaseThreshold))

\* preview_import: balance_after is a computed difference
PreviewDerives ==
    /\ ~IsNone(derivation.remaining)
    /\ Derived("preview", preview_new_status(Val(derivation.remaining), CaseThreshold))

(***************************************************************************)
(* Two sessions running record_import at once (READ COMMITTED).            *)
(***************************************************************************)
Sessions == {"s1", "s2"}

NoRequest ==
    [certificate_item_id |-> NoSuchItem, port |-> NoPort,
     import_date |-> 0, quantity_imported |-> 0]

Session(pc, import_data, allow_overdraw, current_balance, err) ==
    [pc |-> pc, import_data |-> import_data, allow_overdraw |-> allow_overdraw,
     current_balance |-> current_balance, err |-> err]

\* update_item_warning_threshold: the arguments and the item as db.get loaded it
ThresholdSession(pc, item_id, warning_threshold, loaded) ==
    [pc |-> pc, item_id |-> item_id, warning_threshold |-> warning_threshold,
     loaded |-> loaded]

ThresholdIdle == ThresholdSession("idle", NoSuchItem, None, None)

ConcIdle ==
    /\ sessions = [s \in Sessions |-> Session("idle", NoRequest, TRUE, 0, "ok")]
    /\ row_lock = None
    /\ uncommitted = None
    /\ threshold_session = ThresholdIdle

\* get_item_with_certificate / get_current_balance_for_port: a plain SELECT,
\* which sees the committed rows and waits for no lock; then the checks
ReadBalance(s) ==
    \E import_data \in ImportRequests({MaxDate}, ImportQtys), allow_overdraw \in BOOLEAN :
        /\ sessions[s].pc = "idle"
        /\ import_data.certificate_item_id \in Items
        /\ LET checked == read_current_balance(CurrentDb, import_data, allow_overdraw)
           IN  /\ checked.err = "ok"
               /\ sessions' = [sessions EXCEPT ![s] =
                      Session("read", import_data, allow_overdraw,
                              checked.current_balance, "ok")]
        /\ UNCHANGED <<ledgerVars, statusVars, matchVars, certVars, row_lock, uncommitted, threshold_session>>

\* the same read, ending in ItemNotFound, InvalidPort or InsufficientBalance
RejectImport(s) ==
    \E import_data \in ImportRequests({MaxDate}, ImportQtys), allow_overdraw \in BOOLEAN :
        /\ sessions[s].pc = "idle"
        /\ LET checked == read_current_balance(CurrentDb, import_data, allow_overdraw)
           IN  /\ checked.err # "ok"
               /\ sessions' = [sessions EXCEPT ![s] =
                      Session("raised", import_data, allow_overdraw, 0, checked.err)]
        /\ UNCHANGED <<ledgerVars, statusVars, matchVars, certVars, row_lock, uncommitted, threshold_session>>

\* create_import_record: the INSERT and its trigger's UPDATE of the item row,
\* which waits while another transaction holds the row and then applies to
\* the row as committed; the row stays locked until this transaction commits
InsertRecord(s) ==
    /\ sessions[s].pc = "read"
    /\ row_lock = None
    /\ row_lock' = Some(s)
    /\ uncommitted' = Some(insert_import_record(CurrentDb, sessions[s].import_data,
                                                sessions[s].current_balance))
    /\ sessions' = [sessions EXCEPT ![s].pc = "inserted"]
    /\ UNCHANGED <<ledgerVars, statusVars, matchVars, certVars, threshold_session>>

\* db.commit(): the transaction's rows become visible, the row lock is released
CommitImport(s) ==
    /\ sessions[s].pc = "inserted"
    /\ row_lock = Some(s)
    /\ Install(Val(uncommitted))
    /\ lastOp' = Op("commit", sessions[s].import_data.port,
                    sessions[s].allow_overdraw, "ok")
    /\ row_lock' = None
    /\ uncommitted' = None
    /\ sessions' = [sessions EXCEPT ![s].pc = "done"]
    /\ UNCHANGED <<statusVars, matchVars, certVars, threshold_session>>

\* update_item_warning_threshold from the first flush on, in a session that
\* loaded the item before: the UPDATEs carry the attributes whose value differs
\* from the loaded one, and the status is derived from the loaded
\* remaining_quantity; the row is the committed one (READ COMMITTED)
write_item_warning_threshold(db, loaded, item_id, warning_threshold) ==
    LET default_thr == get_default_warning_threshold(db)
        threshold   == IF IsNone(warning_threshold) THEN default_thr
                       ELSE Val(warning_threshold)
        status      == threshold_status(loaded, threshold)
    IN  [db EXCEPT !.items[item_id] =
            [@ EXCEPT
               !.warning_threshold =
                   IF warning_threshold # loaded.warning_threshold
                   THEN warning_threshold ELSE @,
               !.quantity_status =
                   IF status # loaded.quantity_status THEN status ELSE @]]

\* update_item_warning_threshold: item = db.get(MidaCertificateItem, item_id),
\* a plain SELECT that takes no lock
LoadItemForThreshold ==
    \E item_id \in Items,
       warning_threshold \in {None} \cup {Some(t) : t \in ThresholdChoices} :
        /\ threshold_session.pc = "idle"
        /\ threshold_session' =
              ThresholdSession("loaded", item_id, warning_threshold, Some(items[item_id]))
        /\ UNCHANGED <<ledgerVars, statusVars, matchVars, certVars,
                       sessions, row_lock, uncommitted>>

\* the two flushes, which wait for the row lock, and db.commit()
WriteItemThreshold ==
    /\ threshold_session.pc = "loaded"
    /\ row_lock = None
    /\ Install(write_item_warning_threshold(CurrentDb, Val(threshold_session.loaded),
                                            threshold_session.item_id,
                                            threshold_session.warning_threshold))
    /\ lastOp' = Op("item_threshold", NoPort, TRUE, "ok")
    /\ threshold_session' = [threshold_session EXCEPT !.pc = "done"]
    /\ UNCHANGED <<statusVars, matchVars, certVars, sessions, row_lock, uncommitted>>

(***************************************************************************)
(* The invoice-to-certificate matcher (mida_matcher).  A text is a         *)
(* sequence of characters, each character a one-letter string; "a_acute"   *)
(* is a precomposed accented letter and "acute" its combining mark.  Lists *)
(* are indexed from 1 (Python: from 0); index 0 stands for None.  A score  *)
(* is the exact fraction <<numerator, denominator>> of the float computed. *)
(***************************************************************************)
\* unicodedata.normalize("NFKD", text), per character
nfkd_char(ch) == IF ch = "a_acute" THEN <<"a", "acute">> ELSE <<ch>>

\* str.casefold(), per character
casefold_char(ch) == IF ch = "A" THEN "a" ELSE IF ch = "B" THEN "b" ELSE ch

\* the regular expression classes \w and \s
IsWordChar(ch) == ch \in {"a", "b", "c", "A", "B"}
IsSpaceChar(ch) == ch = " "

RECURSIVE nfkd(_)
nfkd(text) ==
    IF text = <<>> THEN <<>> ELSE nfkd_char(Head(text)) \o nfkd(Tail(text))

casefold(text) == [i \in 1..Len(text) |-> casefold_char(text[i])]

\* re.sub(r"[^\w\s]", " ", text)
strip_punctuation(text) ==
    [i \in 1..Len(text) |->
        IF IsWordChar(text[i]) \/ IsSpaceChar(text[i]) THEN text[i] ELSE " "]

\* re.sub(r"\s+", " ", text)
RECURSIVE collapse_spaces(_)
collapse_spaces(text) ==
    IF text = <<>> THEN <<>>
    ELSE IF IsSpaceChar(Head(text))
         THEN IF Len(text) > 1 /\ IsSpaceChar(text[2])
              THEN collapse_spaces(Tail(text))
              ELSE <<" ">> \o collapse_spaces(Tail(text))
         ELSE <<Head(text)>> \o collapse_spaces(Tail(text))

\* str.strip() of a text whose runs of spaces were collapsed
strip(text) ==
    LET lead  == IF text # <<>> /\ IsSpaceChar(Head(text)) THEN Tail(text) ELSE text
    IN  IF lead # <<>> /\ IsSpaceChar(lead[Len(lead)])
        THEN SubSeq(lead, 1, Len(lead) - 1) ELSE lead

normalize(text) ==
    IF text = <<>> THEN <<>>
    ELSE strip(collapse_spaces(strip_punctuation(casefold(nfkd(text)))))

\* str.split(): the whitespace-separated tokens of a normalized text, as a set
RECURSIVE Tokens(_, _)
Tokens(text, current) ==
    IF text = <<>> THEN (IF current = <<>> THEN {} ELSE {current})
    ELSE IF IsSpaceChar(Head(text))
         THEN (IF current = <<>> THEN {} ELSE {current}) \cup Tokens(Tail(text), <<>>)
         ELSE Tokens(Tail(text), Append(current, Head(text)))

Min(x, y) == IF x <= y THEN x ELSE y

\* SequenceMatcher.find_longest_match: the longest common block, of those the
\* one starting earliest in a, of those the one starting earliest in b
find_longest_match(a, b) ==
    LET blocks == {blk \in (1..Len(a)) \X (1..Len(b)) \X (1..Min(Len(a), Len(b))) :
                      /\ blk[1] + blk[3] - 1 <= Len(a)
                      /\ blk[2] + blk[3] - 1 <= Len(b)
                      /\ SubSeq(a, blk[1], blk[1] + blk[3] - 1)
                            = SubSeq(b, blk[2], blk[2] + blk[3] - 1)}
    IN  IF blocks = {} THEN <<1, 1, 0>>
        ELSE CHOOSE blk \in blocks : \A o \in blocks :
                \/ blk[3] > o[3]
                \/ blk[3] = o[3] /\ blk[1] < o[1]
                \/ blk[3] = o[3] /\ blk[1] = o[1] /\ blk[2] <= o[2]

\* SequenceMatcher.get_matching_blocks: the number of matched characters
RECURSIVE matching_characters(_, _)
matching_characters(a, b) ==
    IF a = <<>> \/ b = <<>> THEN 0
    ELSE LET blk == find_longest_match(a, b)
         IN  IF blk[3] = 0 THEN 0
             ELSE blk[3]
                  + matching_characters(SubSeq(a, 1, blk[1] - 1), SubSeq(b, 1, blk[2] - 1))
                  + matching_characters(SubSeq(a, blk[1] + blk[3], Len(a)),
                                        SubSeq(b, blk[2] + blk[3], Len(b)))

ScoreLess(s1, s2) == s1[1] * s2[2] < s2[1] * s1[2]
ScoreEqual(s1, s2) == s1[1] * s2[2] = s2[1] * s1[2]

\* calculate_similarity: 0.4 * Jaccard(tokens) + 0.6 * SequenceMatcher.ratio(),
\* with ratio = 2 * matched / (len(text1) + len(text2))
calculate_similarity(text1, text2) ==
    IF text1 = <<>> \/ text2 = <<>> THEN <<0, 1>>
    ELSE IF text1 = text2 THEN <<1, 1>>
    ELSE LET tokens1 == Tokens(text1, <<>>)
             tokens2 == Tokens(text2, <<>>)
         IN  IF tokens1 = {} \/ tokens2 = {} THEN <<0, 1>>
             ELSE LET intersection == Cardinality(tokens1 \cap tokens2)
                      union        == Cardinality(tokens1 \cup tokens2)
                      matched      == matching_characters(text1, text2)
                      total        == Len(text1) + Len(text2)
                  IN  <<4 * intersection * total + 12 * matched * union,
                        10 * union * total>>

\* (mutant) candidates are scanned without skipping the used indices
find_best_match_reusing(invoice_item, mida_list, used, mode, threshold) ==
    LET norm_invoice == normalize(invoice_item.item_name)
        NoMatch == [idx |-> 0, score |-> <<0, 1>>, is_exact |-> FALSE]
        RECURSIVE Scan(_, _)
        Scan(idx, best) ==
            IF idx > Len(mida_list) THEN best
            ELSE LET norm_mida == normalize(mida_list[idx].item_name)
                     is_exact  == norm_invoice = norm_mida
                     score     == IF is_exact THEN <<1, 1>>
                                  ELSE calculate_similarity(norm_invoice, norm_mida)
                     should_update ==
                         \/ ScoreLess(best.score, score)
                         \/ /\ ScoreEqual(score, best.score)
                            /\ \/ is_exact /\ ~best.is_exact
                               \/ /\ is_exact = best.is_exact
                                  /\ best.idx # 0
                                  /\ mida_list[idx].line_no < mida_list[best.idx].line_no
                 IN  IF norm_mida = <<>> THEN Scan(idx + 1, best)
                     ELSE IF ~is_exact /\ mode # "fuzzy" THEN Scan(idx + 1, best)
                     ELSE IF ~is_exact /\ ScoreLess(score, <<threshold, 100>>)
                          THEN Scan(idx + 1, best)
                     ELSE IF should_update
                          THEN Scan(idx + 1, [idx |-> idx, score |-> score,
                                              is_exact |-> is_exact])
                          ELSE Scan(idx + 1, best)
    IN  IF norm_invoice = <<>> THEN NoMatch ELSE Scan(1, NoMatch)

\* (mutant) fuzzy candidates below the threshold are not discarded
find_best_match_any_score(invoice_item, mida_list, used, mode, threshold) ==
    LET norm_invoice == normalize(invoice_item.item_name)
        NoMatch == [idx |-> 0, score |-> <<0, 1>>, is_exact |-> FALSE]
        RECURSIVE Scan(_, _)
        Scan(idx, best) ==
            IF idx > Len(mida_list) THEN best
            ELSE IF idx \in used THEN Scan(idx + 1, best)
            ELSE LET norm_mida == normalize(mida_list[idx].item_name)
                     is_exact  == norm_invoice = norm_mida
                     score     == IF is_exact THEN <<1, 1>>
                                  ELSE calculate_similarity(norm_invoice, norm_mida)
                     should_update ==
                         \/ ScoreLess(best.score, score)
                         \/ /\ ScoreEqual(score, best.score)
                            /\ \/ is_exact /\ ~best.is_exact
                               \/ /\ is_exact = best.is_exact
                                  /\ best.idx # 0
                                  /\ mida_list[idx].line_no < mida_list[best.idx].line_no
                 IN  IF norm_mida = <<>> THEN Scan(idx + 1, best)
                     ELSE IF ~is_exact /\ mode # "fuzzy" THEN Scan(idx + 1, best)
                     ELSE IF should_update
                          THEN Scan(idx + 1, [idx |-> idx, score |-> score,
                                              is_exact |-> is_exact])
                          ELSE Scan(idx + 1, best)
    IN  IF norm_invoice = <<>> THEN NoMatch ELSE Scan(1, NoMatch)

\* find_best_match: [idx, score, is_exact], idx = 0 for (None, 0.0, False)
find_best_match(invoice_item, mida_list, used, mode, threshold) ==
    LET norm_invoice == normalize(invoice_item.item_name)
        NoMatch == [idx |-> 0, score |-> <<0, 1>>, is_exact |-> FALSE]
        RECURSIVE Scan(_, _)
        Scan(idx, best) ==
            IF idx > Len(mida_list) THEN best
            ELSE IF idx \in used THEN Scan(idx + 1, best)
            ELSE LET norm_mida == normalize(mida_list[idx].item_name)
                     is_exact  == norm_invoice = norm_mida
                     score     == IF is_exact THEN <<1, 1>>
                                  ELSE calculate_similarity(norm_invoice, norm_mida)
                     should_update ==
                         \/ ScoreLess(best.score, score)
                         \/ /\ ScoreEqual(score, best.score)
                            /\ \/ is_exact /\ ~best.is_exact
                               \/ /\ is_exact = best.is_exact
                                  /\ best.idx # 0
                                  /\ mida_list[idx].line_no < mida_list[best.idx].line_no
                 IN  IF norm_mida = <<>> THEN Scan(idx + 1, best)
                     ELSE IF ~is_exact /\ mode # "fuzzy" THEN Scan(idx + 1, best)
                     ELSE IF ~is_exact /\ ScoreLess(score, <<threshold, 100>>)
                          THEN Scan(idx + 1, best)
                     ELSE IF should_update
                          THEN Scan(idx + 1, [idx |-> idx, score |-> score,
                                              is_exact |-> is_exact])
                          ELSE Scan(idx + 1, best)
    IN  IF norm_invoice = <<>> THEN NoMatch ELSE Scan(1, NoMatch)

\* UOM_ALIASES
UOM_ALIASES ==
    [k \in {"unt", "unit", "units", "pcs", "pc", "piece", "pieces", "ea", "each",
            "nos", "no", "number"} |-> "UNIT"]
    @@ [k \in {"kgm", "kgs", "kg", "kilogram", "kilograms"} |-> "KGM"]
    @@ [k \in {"mtr", "m", "meter", "meters", "metre", "metres"} |-> "MTR"]
    @@ [k \in {"ltr", "l", "liter", "liters", "litre", "litres"} |-> "LTR"]

\* UOM_COMPATIBILITY
UOM_COMPATIBILITY ==
    [k \in {"UNIT", "KGM", "MTR", "LTR"} |-> {k}]

\* the unit strings of the model, with str.strip().lower() and str.strip().upper();
\* "kg_longs" is 'kg' followed by U+017F (long s): lower() keeps it, upper() gives 'KGS'
UomStrings == {"", " ", "UNT", "KGS", "kg", "Box", "UNIT", "KGM", "BOX", "kg_longs"}

StripLower(uom) ==
    CASE uom \in {"", " "} -> ""
      [] uom = "UNT" -> "unt"
      [] uom = "KGS" -> "kgs"
      [] uom = "kg" -> "kg"
      [] uom = "kg_longs" -> "kg_longs"
      [] uom \in {"Box", "BOX"} -> "box"
      [] uom = "UNIT" -> "unit"
      [] uom = "KGM" -> "kgm"

StripUpper(uom) ==
    CASE uom \in {"", " "} -> ""
      [] uom = "kg" -> "KG"
      [] uom = "kg_longs" -> "KGS"
      [] uom \in {"Box", "BOX"} -> "BOX"
      [] OTHER -> uom

normalize_uom(uom) ==
    IF uom = "" THEN "UNIT"
    ELSE LET norm == StripLower(uom)
         IN  IF norm = "" THEN "UNIT"
             ELSE IF norm \in DOMAIN UOM_ALIASES THEN UOM_ALIASES[norm]
             ELSE StripUpper(uom)

are_uoms_compatible(uom1, uom2) ==
    LET norm1 == normalize_uom(uom1)
        norm2 == normalize_uom(uom2)
        group1 == IF norm1 \in DOMAIN UOM_COMPATIBILITY
                  THEN UOM_COMPATIBILITY[norm1] ELSE {norm1}
        group2 == IF norm2 \in DOMAIN UOM_COMPATIBILITY
                  THEN UOM_COMPATIBILITY[norm2] ELSE {norm2}
    IN  norm1 = norm2 \/ group1 \cap group2 # {}

\* InvoiceItem.effective_quantity
effective_quantity(invoice_item) ==
    IF normalize_uom(invoice_item.quantity_uom) = "KGM" /\ ~IsNone(invoice_item.net_weight)
    THEN Val(invoice_item.net_weight)
    ELSE invoice_item.quantity

\* NEAR_LIMIT_THRESHOLD = Decimal("0.90"), in hundredths
NEAR_LIMIT_THRESHOLD == 90

MatchWarning(reason, severity) == [reason |-> reason, severity |-> severity]

\* (mutant) the quantity is compared before the remaining quantity is looked at
check_quantity_warnings_exceeds_first(invoice_item, mida_item, remaining_qty) ==
    LET invoice_uom == normalize_uom(invoice_item.quantity_uom)
        mida_uom    == normalize_uom(mida_item.uom)
        invoice_qty == effective_quantity(invoice_item)
    IN  IF ~are_uoms_compatible(invoice_uom, mida_uom)
        THEN <<MatchWarning("UOM mismatch", "warning")>>
        ELSE IF invoice_qty > remaining_qty
        THEN <<MatchWarning("Exceeds remaining approved quantity", "error")>>
        ELSE IF remaining_qty <= 0
        THEN <<MatchWarning("No remaining quantity", "error")>>
        ELSE IF 100 * invoice_qty >= NEAR_LIMIT_THRESHOLD * remaining_qty
        THEN <<MatchWarning("Near limit", "info")>>
        ELSE <<>>

\* check_quantity_warnings: the warnings (reason and severity) of one match
check_quantity_warnings(invoice_item, mida_item, remaining_qty) ==
    LET invoice_uom == normalize_uom(invoice_item.quantity_uom)
        mida_uom    == normalize_uom(mida_item.uom)
        invoice_qty == effective_quantity(invoice_item)
    IN  IF ~are_uoms_compatible(invoice_uom, mida_uom)
        THEN <<MatchWarning("UOM mismatch", "warning")>>
        ELSE IF remaining_qty <= 0
        THEN <<MatchWarning("No remaining quantity", "error")>>
        ELSE IF invoice_qty > remaining_qty
        THEN <<MatchWarning("Exceeds remaining approved quantity", "error")>>
        ELSE IF 100 * invoice_qty >= NEAR_LIMIT_THRESHOLD * remaining_qty
        THEN <<MatchWarning("Near limit", "info")>>
        ELSE <<>>

\* (mutant) the difference is stored without a floor
MaxOfSecondOnly(x, y) == y

Max(x, y) == IF x >= y THEN x ELSE y

MatchResult(invoice_item, mida_idx, mida_item, match_score, is_exact_match, remaining_qty, warnings) ==
    [invoice_item |-> invoice_item, mida_idx |-> mida_idx, mida_item |-> mida_item,
     match_score |-> match_score, is_exact_match |-> is_exact_match,
     remaining_qty |-> remaining_qty, warnings |-> warnings]

\* MatchResult.matched
Matched(m) == ~IsNone(m.mida_item)

\* MidaItem.remaining_quantity: the approved quantity
mida_remaining_quantity(mida_item) == mida_item.approved_quantity

\* the cases the matcher is run on
InvoiceCatalogue ==
    { [item_name |-> <<"a", "b">>, quantity |-> 1, quantity_uom |-> "UNT",
       net_weight |-> None],
      [item_name |-> <<"A", "B">>, quantity |-> 2, quantity_uom |-> "KGS",
       net_weight |-> Some(1)],
      [item_name |-> <<"a", "-", "c">>, quantity |-> 2, quantity_uom |-> "Box",
       net_weight |-> None],
      [item_name |-> <<"-">>, quantity |-> 1, quantity_uom |-> "",
       net_weight |-> None],
      [item_name |-> <<"A", "B">>, quantity |-> 2, quantity_uom |-> "kg_longs",
       net_weight |-> None] }

MidaCatalogue ==
    { [item_name |-> <<"a", "b">>, approved_quantity |-> 2, uom |-> "UNIT"],
      [item_name |-> <<"a_acute", "-", "B">>, approved_quantity |-> 1, uom |-> "KGM"],
      [item_name |-> <<"c", " ">>, approved_quantity |-> 0, uom |-> "BOX"],
      [item_name |-> <<" ", "-">>, approved_quantity |-> 1, uom |-> " "],
      [item_name |-> <<"a", "c">>, approved_quantity |-> 1, uom |-> "Box"] }

MatchModes == {"exact", "fuzzy"}

\* thresholds in hundredths
MatchThresholds == {0, 50}

SeqsUpTo(S, n) == UNION {[1..k -> S] : k \in 1..n}

MatchIdle ==
    /\ invoice_items = <<>>
    /\ mida_items = <<>>
    /\ match_mode = "fuzzy"
    /\ match_threshold = 50
    /\ matches = <<>>
    /\ unmatched = <<>>
    /\ all_warnings = <<>>
    /\ used_mida_indices = {}
    /\ remaining_qtys = <<>>
    /\ first_result = None

\* a call of match_items: its arguments, and the locals before the loop;
\* certificate lines are numbered in list order or against it
MatchInit ==
    \E invoices \in SeqsUpTo(InvoiceCatalogue, MaxInvoiceItems),
       certs \in SeqsUpTo(MidaCatalogue, MaxMidaItems),
       ascending \in BOOLEAN :
        /\ invoice_items = invoices
        /\ mida_items =
              [idx \in 1..Len(certs) |->
                 [line_no |-> IF ascending THEN idx ELSE Len(certs) + 1 - idx,
                  item_name |-> certs[idx].item_name,
                  approved_quantity |-> certs[idx].approved_quantity,
                  uom |-> certs[idx].uom]]
        /\ match_mode \in MatchModes
        /\ match_threshold \in MatchThresholds
        /\ matches = <<>>
        /\ unmatched = <<>>
        /\ all_warnings = <<>>
        /\ used_mida_indices = {}
        /\ remaining_qtys =
              [idx \in 1..Len(certs) |-> mida_remaining_quantity(certs[idx])]
        /\ first_result = None

\* the invoice item of the current loop iteration and its best match
CurrentInvoiceItem == invoice_items[Len(matches) + 1]

CurrentBest ==
    find_best_match(CurrentInvoiceItem, mida_items, used_mida_indices,
                    match_mode, match_threshold)

\* match_items, one loop iteration with best_idx None
LeaveUnmatched ==
    /\ Len(matches) < Len(invoice_items)
    /\ CurrentBest.idx = 0
    /\ unmatched' = Append(unmatched, CurrentInvoiceItem)
    /\ matches' = Append(matches,
                         MatchResult(CurrentInvoiceItem, 0, None, <<0, 1>>, FALSE, 0, <<>>))
    /\ UNCHANGED <<matchInputs, all_warnings, used_mida_indices, remaining_qtys, first_result>>
    /\ UNCHANGED <<ledgerVars, statusVars, concVars, certVars>>

\* match_items, one loop iteration with a match found
MatchInvoiceItem ==
    /\ Len(matches) < Len(invoice_items)
    /\ CurrentBest.idx # 0
    /\ LET best_idx      == CurrentBest.idx
           mida_item     == mida_items[best_idx]
           remaining_qty == remaining_qtys[best_idx]
           warnings      == check_quantity_warnings(CurrentInvoiceItem, mida_item,
                                                    remaining_qty)
           consumed      == effective_quantity(CurrentInvoiceItem)
           left          == IF are_uoms_compatible(CurrentInvoiceItem.quantity_uom,
                                                   mida_item.uom)
                            THEN Max(0, remaining_qty - consumed)
                            ELSE remaining_qty
       IN  /\ all_warnings' = all_warnings \o warnings
           /\ remaining_qtys' = [remaining_qtys EXCEPT ![best_idx] = left]
           /\ used_mida_indices' = used_mida_indices \cup {best_idx}
           /\ matches' = Append(matches,
                                MatchResult(CurrentInvoiceItem, best_idx, Some(mida_item),
                                            CurrentBest.score, CurrentBest.is_exact,
                                            left, warnings))
    /\ UNCHANGED <<matchInputs, unmatched, first_result>>
    /\ UNCHANGED <<ledgerVars, statusVars, concVars, certVars>>

\* (mutant) the set of used certificate items outlives the call
match_items_locals_keeping_used(mida_list) ==
    [matches           |-> <<>>,
     unmatched         |-> <<>>,
     all_warnings      |-> <<>>,
     used_mida_indices |-> used_mida_indices,
     remaining_qtys    |-> [idx \in 1..Len(mida_list) |->
                               mida_remaining_quantity(mida_list[idx])]]

\* match_items: the locals before the loop
match_items_locals(mida_list) ==
    [matches           |-> <<>>,
     unmatched         |-> <<>>,
     all_warnings      |-> <<>>,
     used_mida_indices |-> {},
     remaining_qtys    |-> [idx \in 1..Len(mida_list) |->
                               mida_remaining_quantity(mida_list[idx])]]

\* the result appended for an invoice item without a match
UnmatchedResult(invoice_item) ==
    MatchResult(invoice_item, 0, None, <<0, 1>>, FALSE, 0, <<>>)

\* (mutant) a later invoice item takes a certificate item from an earlier one
match_items_iteration_last_wins(locals, invoice_item, mida_list, mode, threshold) ==
    LET best == find_best_match(invoice_item, mida_list, {}, mode, threshold)
    IN  IF best.idx = 0
        THEN [locals EXCEPT !.unmatched = Append(@, invoice_item),
                            !.matches = Append(@, UnmatchedResult(invoice_item))]
        ELSE LET mida_item == mida_list[best.idx]
                 released  == [i \in 1..Len(locals.matches) |->
                                  IF locals.matches[i].mida_idx = best.idx
                                  THEN UnmatchedResult(locals.matches[i].invoice_item)
                                  ELSE locals.matches[i]]
             IN  [locals EXCEPT
                    !.used_mida_indices = @ \cup {best.idx},
                    !.matches = Append(released,
                                       MatchResult(invoice_item, best.idx, Some(mida_item),
                                                   best.score, best.is_exact,
                                                   locals.remaining_qtys[best.idx], <<>>))]

\* match_items: one iteration of the loop over invoice_items, on the locals
match_items_iteration(locals, invoice_item, mida_list, mode, threshold) ==
    LET best == find_best_match(invoice_item, mida_list, locals.used_mida_indices,
                                mode, threshold)
    IN  IF best.idx = 0
        THEN [locals EXCEPT !.unmatched = Append(@, invoice_item),
                            !.matches = Append(@, UnmatchedResult(invoice_item))]
        ELSE LET mida_item     == mida_list[best.idx]
                 remaining_qty == locals.remaining_qtys[best.idx]
                 warnings      == check_quantity_warnings(invoice_item, mida_item,
                                                          remaining_qty)
                 left          == IF are_uoms_compatible(invoice_item.quantity_uom,
                                                         mida_item.uom)
                                  THEN Max(0, remaining_qty - effective_quantity(invoice_item))
                                  ELSE remaining_qty
             IN  [locals EXCEPT
                    !.all_warnings = @ \o warnings,
                    !.remaining_qtys[best.idx] = left,
                    !.used_mida_indices = @ \cup {best.idx},
                    !.matches = Append(@, MatchResult(invoice_item, best.idx, Some(mida_item),
                                                      best.score, best.is_exact,
                                                      left, warnings))]

\* match_items: the loop, from the locals it has reached
RECURSIVE match_items_loop(_, _, _, _, _)
match_items_loop(locals, invoices, mida_list, mode, threshold) ==
    IF invoices = <<>> THEN locals
    ELSE match_items_loop(
             match_items_iteration(locals, Head(invoices), mida_list, mode, threshold),
             Tail(invoices), mida_list, mode, threshold)

\* match_items(invoice_items, mida_items, mode, threshold): the locals at return
match_items(invoices, mida_list, mode, threshold) ==
    match_items_loop(match_items_locals(mida_list), invoices, mida_list, mode, threshold)

\* (mutant) matched_count counts every MatchResult
MatchingResultCountingAll ==
    [matches                 |-> matches,
     unmatched_invoice_items |-> unmatched,
     warnings                |-> all_warnings,
     total_invoice_items     |-> Len(invoice_items),
     matched_count           |-> Len(matches),
     unmatched_count         |-> Len(unmatched)]

\* MatchingResult: what match_items returns once the loop has ended
MatchingResult ==
    [matches                 |-> matches,
     unmatched_invoice_items |-> unmatched,
     warnings                |-> all_warnings,
     total_invoice_items     |-> Len(invoice_items),
     matched_count           |-> Cardinality({i \in 1..Len(matches) : Matched(matches[i])}),
     unmatched_count         |-> Len(unmatched)]

MatchReturned == Len(matches) = Len(invoice_items)

\* match_items returns, and the caller calls it again with the same objects
MatchAgain ==
    /\ MatchReturned
    /\ IsNone(first_result)
    /\ first_result' = Some(MatchingResult)
    /\ LET locals == match_items_locals(mida_items)
       IN  /\ matches' = locals.matches
           /\ unmatched' = locals.unmatched
           /\ all_warnings' = locals.all_warnings
           /\ used_mida_indices' = locals.used_mida_indices
           /\ remaining_qtys' = locals.remaining_qtys
    /\ UNCHANGED matchInputs
    /\ UNCHANGED <<ledgerVars, statusVars, concVars, certVars>>

(***************************************************************************)
(* Certificate service (mida_certificate_service): create, update, confirm *)
(* (mark as expired), soft delete, restore and permanent delete.  The      *)
(* table is a function from certificate ids to a row or None; updated_at   *)
(* counts the writes that set it.                                          *)
(***************************************************************************)
MaxCertificates == 1    \* rows of mida_certificates at one time
MaxCertWrites == 2      \* writes of updated_at to one certificate

CertIds == 1..MaxCertificates

CertNumbers == {"n1", "n2"}

\* payload.items of a create or update request (at least one item)
CertItemPayloads ==
    { << <<Some(3), Some(2), Some(1), None>> >>,
      << <<Some(3), Some(2), None, None>>, <<None, Some(1), None, None>> >> }

CertPayloads ==
    [certificate_number : CertNumbers, ended : BOOLEAN, items : CertItemPayloads]

\* _build_item_model for each item of the payload, then the insert trigger
BuildItems(payload_items) ==
    [i \in 1..Len(payload_items) |-> NewItem(payload_items[i])]

CertResult(err, tbl) == [err |-> err, certificates |-> tbl]

\* repo.get_certificate_by_id
get_certificate_by_id(tbl, certificate_id, include_deleted) ==
    IF certificate_id \notin DOMAIN tbl THEN None
    ELSE IF IsNone(tbl[certificate_id]) THEN None
    ELSE IF ~include_deleted /\ Val(tbl[certificate_id]).deleted THEN None
    ELSE tbl[certificate_id]

\* repo.get_certificate_by_number: the ids found
get_certificate_by_number(tbl, certificate_number, include_deleted) ==
    {id \in DOMAIN tbl :
        /\ ~IsNone(tbl[id])
        /\ Val(tbl[id]).certificate_number = certificate_number
        /\ include_deleted \/ ~Val(tbl[id]).deleted}

\* the unique constraint on certificate_number, soft-deleted rows included
NumberTakenByOther(tbl, certificate_id, certificate_number) ==
    get_certificate_by_number(tbl, certificate_number, TRUE) \ {certificate_id} # {}

\* create_or_replace_draft; the new row takes a free id
create_or_replace_draft(tbl, new_id, payload) ==
    IF get_certificate_by_number(tbl, payload.certificate_number, FALSE) # {}
    THEN CertResult("Conflict", tbl)
    ELSE IF NumberTakenByOther(tbl, new_id, payload.certificate_number)
    THEN CertResult("IntegrityError", tbl)
    ELSE CertResult("ok",
             [tbl EXCEPT ![new_id] =
                 Some([certificate_number |-> payload.certificate_number,
                       status     |-> IF payload.ended THEN "expired" ELSE "active",
                       deleted    |-> FALSE,
                       updated_at |-> 0,
                       items      |-> BuildItems(payload.items)])])

\* (mutant) update_draft_by_id without the check of the status
update_draft_by_id_unchecked(tbl, certificate_id, payload) ==
    LET certificate == get_certificate_by_id(tbl, certificate_id, FALSE)
    IN  IF IsNone(certificate) THEN CertResult("NotFound", tbl)
        ELSE IF NumberTakenByOther(tbl, certificate_id, payload.certificate_number)
        THEN CertResult("IntegrityError", tbl)
        ELSE CertResult("ok",
                 [tbl EXCEPT ![certificate_id] =
                     Some([Val(certificate) EXCEPT
                             !.certificate_number = payload.certificate_number,
                             !.updated_at = @ + 1,
                             !.items = BuildItems(payload.items)])])

\* update_draft_by_id
update_draft_by_id(tbl, certificate_id, payload) ==
    LET certificate == get_certificate_by_id(tbl, certificate_id, FALSE)
    IN  IF IsNone(certificate) THEN CertResult("NotFound", tbl)
        ELSE IF Val(certificate).status = "expired" THEN CertResult("Conflict", tbl)
        ELSE IF NumberTakenByOther(tbl, certificate_id, payload.certificate_number)
        THEN CertResult("IntegrityError", tbl)
        ELSE CertResult("ok",
                 [tbl EXCEPT ![certificate_id] =
                     Some([Val(certificate) EXCEPT
                             !.certificate_number = payload.certificate_number,
                             !.updated_at = @ + 1,
                             !.items = BuildItems(payload.items)])])

\* confirm_certificate
confirm_certificate(tbl, certificate_id) ==
    LET certificate == get_certificate_by_id(tbl, certificate_id, FALSE)
    IN  IF IsNone(certificate) THEN CertResult("NotFound", tbl)
        ELSE IF Val(certificate).status = "expired" THEN CertResult("ok", tbl)
        ELSE CertResult("ok",
                 [tbl EXCEPT ![certificate_id] =
                     Some([Val(certificate) EXCEPT !.status = "expired",
                                                   !.updated_at = @ + 1])])

\* soft_delete_certificate
soft_delete_certificate(tbl, certificate_id) ==
    LET certificate == get_certificate_by_id(tbl, certificate_id, FALSE)
    IN  IF IsNone(certificate) THEN CertResult("NotFound", tbl)
        ELSE CertResult("ok",
                 [tbl EXCEPT ![certificate_id] =
                     Some([Val(certificate) EXCEPT !.deleted = TRUE])])

\* restore_certificate
restore_certificate(tbl, certificate_id) ==
    LET deleted_cert == get_certificate_by_id(tbl, certificate_id, TRUE)
    IN  IF IsNone(deleted_cert) THEN CertResult("NotFound", tbl)
        ELSE IF ~Val(deleted_cert).deleted THEN CertResult("NotFound", tbl)
        ELSE IF get_certificate_by_number(tbl, Val(deleted_cert).certificate_number,
                                          FALSE) # {}
        THEN CertResult("RestoreConflict", tbl)
        ELSE CertResult("ok",
                 [tbl EXCEPT ![certificate_id] =
                     Some([Val(deleted_cert) EXCEPT !.deleted = FALSE])])

\* permanent_delete_certificate
permanent_delete_certificate(tbl, certificate_id) ==
    IF IsNone(get_certificate_by_id(tbl, certificate_id, TRUE))
    THEN CertResult("NotFound", tbl)
    ELSE CertResult("ok", [tbl EXCEPT ![certificate_id] = None])

CertOp(op, certificate_id, err) ==
    [op |-> op, certificate_id |-> certificate_id, err |-> err]

CertIdle ==
    /\ certificates = [id \in CertIds |-> None]
    /\ lastCertOp = CertOp("init", 0, "ok")

Handled(op, certificate_id, result) ==
    /\ certificates' = result.certificates
    /\ lastCertOp' = CertOp(op, certificate_id, result.err)
    /\ UNCHANGED <<ledgerVars, statusVars, concVars, matchVars>>

\* updated_at stays within the bound of the model
WithinWrites(tbl) ==
    \A id \in DOMAIN tbl :
        IF IsNone(tbl[id]) THEN TRUE ELSE Val(tbl[id]).updated_at <= MaxCertWrites

\* POST /api/mida/certificates/draft
CreateDraft ==
    \E payload \in CertPayloads, new_id \in CertIds :
        /\ IsNone(certificates[new_id])
        /\ Handled("create", new_id, create_or_replace_draft(certificates, new_id, payload))

\* PUT /api/mida/certificates/{certificate_id}
UpdateDraft ==
    \E payload \in CertPayloads, certificate_id \in CertIds :
        LET result == update_draft_by_id(certificates, certificate_id, payload)
        IN  /\ WithinWrites(result.certificates)
            /\ Handled("update", certificate_id, result)

\* POST /api/mida/certificates/{certificate_id}/confirm
Confirm ==
    \E certificate_id \in CertIds :
        LET result == confirm_certificate(certificates, certificate_id)
        IN  /\ WithinWrites(result.certificates)
            /\ Handled("confirm", certificate_id, result)

\* DELETE /api/mida/certificates/{certificate_id}
SoftDelete ==
    \E certificate_id \in CertIds :
        LET result == soft_delete_certificate(certificates, certificate_id)
        IN  /\ certificate_id \in DOMAIN certificates
            /\ Handled("soft_delete", certificate_id, result)

\* POST /api/mida/certificates/{certificate_id}/restore
Restore ==
    \E certificate_id \in CertIds :
        LET result == restore_certificate(certificates, certificate_id)
        IN  /\ certificate_id \in DOMAIN certificates
            /\ Handled("restore", certificate_id, result)

\* DELETE /api/mida/certificates/{certificate_id}/permanent
PermanentDelete ==
    \E certificate_id \in CertIds :
        LET result == permanent_delete_certificate(certificates, certificate_id)
        IN  /\ certificate_id \in DOMAIN certificates
            /\ Handled("permanent_delete", certificate_id, result)

(***************************************************************************)
(* Import service: preview_import and preview_bulk_imports.  A handler is  *)
(* a function from the database to its outcome and the database it leaves. *)
(***************************************************************************)
ImportPreview(import_data, current_balance, balance_after, new_status, will_trigger_warning, will_deplete, will_overdraw) ==
    [port                 |-> import_data.port,
     quantity_to_import   |-> import_data.quantity_imported,
     current_balance      |-> current_balance,
     balance_after_import |-> balance_after,
     new_status           |-> new_status,
     will_trigger_warning |-> will_trigger_warning,
     will_deplete         |-> will_deplete,
     will_overdraw        |-> will_overdraw]

\* the ImportPreview that preview_bulk_imports builds from an ImportError
ErrorPreview(import_data) ==
    ImportPreview(import_data, 0, 0, "error", FALSE, FALSE, TRUE)

PreviewRaises(err, db, import_data) ==
    [err |-> err, db |-> db, preview |-> ErrorPreview(import_data)]

\* (mutant) the preview is made by recording the import
preview_import_recording(db, import_data) ==
    LET result == record_import(db, import_data, TRUE)
    IN  [err |-> result.err, db |-> result.db, preview |-> ErrorPreview(import_data)]

\* preview_import(db, import_data)
preview_import(db, import_data) ==
    LET item_id == import_data.certificate_item_id
        port    == import_data.port
    IN  IF item_id \notin DOMAIN db.items
        THEN PreviewRaises("ItemNotFound", db, import_data)
        ELSE
        LET item    == db.items[item_id]
            current == get_current_balance_for_port(db, item_id, port)
        IN  IF IsNone(current) /\ IsNone(item.port_qty[port])
            THEN PreviewRaises("InvalidPort", db, import_data)
            ELSE
            LET current_balance   == IF IsNone(current) THEN 0 ELSE Val(current)
                balance_after     == current_balance - import_data.quantity_imported
                default_thr       == get_default_warning_threshold(db)
                threshold         == IF IsNone(item.warning_threshold) THEN default_thr
                                     ELSE Val(item.warning_threshold)
                new_status        == preview_new_status(balance_after, threshold)
            IN  [err |-> "ok",
                 db  |-> db,
                 preview |->
                    ImportPreview(import_data, current_balance, balance_after, new_status,
                        item.quantity_status = "normal" /\ new_status = "warning",
                        item.quantity_status # "depleted" /\ new_status = "depleted",
                        item.quantity_status # "overdrawn" /\ new_status = "overdrawn")]

\* preview_bulk_imports: the loop, an ImportError becoming an error preview
RECURSIVE preview_bulk_loop(_, _, _)
preview_bulk_loop(db, imports, previews) ==
    IF imports = <<>> THEN [db |-> db, previews |-> previews]
    ELSE LET one == preview_import(db, Head(imports))
         IN  preview_bulk_loop(one.db, Tail(imports), Append(previews, one.preview))

\* preview_bulk_imports(db, imports): the ImportPreviewResponse
preview_bulk_imports(db, imports) ==
    LET looped   == preview_bulk_loop(db, imports, <<>>)
        previews == looped.previews
    IN  [err |-> "ok",
         db  |-> looped.db,
         response |->
            [previews       |-> previews,
             has_warnings   |-> \E i \in 1..Len(previews) : previews[i].will_trigger_warning,
             has_depletions |-> \E i \in 1..Len(previews) : previews[i].will_deplete,
             has_overdrawns |-> \E i \in 1..Len(previews) : previews[i].will_overdraw,
             total_items    |-> Len(previews)]]

\* record_import: the ImportResult it returns for the record it created
ImportResult(db, import_data, result) ==
    LET record == RecordById(result.db, result.record_id)
        previous_status == db.items[import_data.certificate_item_id].quantity_status
        new_status == result.db.items[import_data.certificate_item_id].quantity_status
    IN  [balance_before      |-> record.balance_before,
         balance_after       |-> record.balance_after,
         previous_status     |-> previous_status,
         new_status          |-> new_status,
         triggered_warning   |-> previous_status = "normal" /\ new_status = "warning",
         triggered_depletion |-> previous_status # "depleted" /\ new_status = "depleted",
         triggered_overdraw  |-> previous_status # "overdrawn" /\ new_status = "overdrawn"]

\* preview_import called for one request
PreviewImport ==
    \E import_data \in ImportRequests({MaxDate}, ImportQtys) :
        LET result == preview_import(CurrentDb, import_data)
        IN  /\ Install(result.db)
            /\ lastOp' = Op("preview", import_data.port, TRUE, result.err)
            /\ UNCHANGED nonLedgerVars

\* POST /imports/preview: preview_imports -> preview_bulk_imports
PreviewBulkImports ==
    \E n \in 1..MaxBulk :
      \E imports \in [1..n -> ImportRequests({MaxDate}, ImportQtys)] :
        LET result == preview_bulk_imports(CurrentDb, imports)
        IN  /\ Install(result.db)
            /\ lastOp' = Op("preview_bulk", NoPort,
                            result.response.has_overdrawns, result.err)
            /\ UNCHANGED nonLedgerVars

Init == LedgerInit /\ StatusIdle /\ ConcIdle /\ MatchIdle /\ CertIdle

\* the requests that write the ledger
Next ==
    \/ RecordImport
    \/ RecordBulkImports
    \/ UpdateImportRecord
    \/ DeleteImportRecord

Spec == Init /\ [][Next]_vars

\* the same, with the recalculation also run on its own
NextRecalc ==
    \/ RecordImport
    \/ UpdateImportRecord
    \/ DeleteImportRecord
    \/ Recalculate

SpecRecalc == Init /\ [][NextRecalc]_vars

\* the same, with the two threshold requests
NextThreshold ==
    \/ RecordImport
    \/ UpdateImportRecord
    \/ DeleteImportRecord
    \/ UpdateItemThreshold
    \/ UpdateDefaultThreshold

SpecThreshold == Init /\ [][NextThreshold]_vars

\* a ledger that no request touches
LedgerIdle ==
    /\ items = [i \in Items |-> NewItem(<<Some(3), Some(2), Some(1), None>>)]
    /\ records = {}
    /\ next_id = 1
    /\ default_threshold = Some(DEFAULT_WARNING_THRESHOLD)
    /\ lastOp = Op("init", NoPort, TRUE, "ok")

\* the status derivations alone, over every case within the bounds
InitStatus == LedgerIdle /\ StatusInit /\ ConcIdle /\ MatchIdle /\ CertIdle

NextStatus ==
    \/ TriggerDerives
    \/ RecalculationDerives
    \/ ThresholdUpdateDerives
    \/ PreviewDerives

SpecStatus == InitStatus /\ [][NextStatus]_vars

\* concurrent commits against one item
NextConc ==
    \/ \E s \in Sessions : ReadBalance(s)
    \/ \E s \in Sessions : RejectImport(s)
    \/ \E s \in Sessions : InsertRecord(s)
    \/ \E s \in Sessions : CommitImport(s)

SpecConc == Init /\ [][NextConc]_vars

\* one update_item_threshold call running while commits and deletes are handled
NextThresholdConc ==
    \/ RecordImport
    \/ DeleteImportRecord
    \/ LoadItemForThreshold
    \/ WriteItemThreshold

SpecThresholdConc == Init /\ [][NextThresholdConc]_vars

\* one call of match_items
InitMatch == LedgerIdle /\ StatusIdle /\ ConcIdle /\ MatchInit /\ CertIdle

NextMatch ==
    \/ MatchInvoiceItem
    \/ LeaveUnmatched

SpecMatch == InitMatch /\ [][NextMatch]_vars

\* match_items called twice on the same arguments
NextRematch ==
    \/ LeaveUnmatched
    \/ MatchInvoiceItem
    \/ MatchAgain

SpecRematch == InitMatch /\ [][NextRematch]_vars

\* commits and deletes, with previews in between
NextPreview ==
    \/ RecordImport
    \/ DeleteImportRecord
    \/ PreviewImport
    \/ PreviewBulkImports

SpecPreview == Init /\ [][NextPreview]_vars

\* the certificate requests
InitCert == LedgerIdle /\ StatusIdle /\ ConcIdle /\ MatchIdle /\ CertIdle

NextCert ==
    \/ CreateDraft
    \/ UpdateDraft
    \/ Confirm
    \/ SoftDelete
    \/ Restore
    \/ PermanentDelete

SpecCert == InitCert /\ [][NextCert]_vars


(***************************************************************************)
(* Claims about the ledger.                                                *)
(***************************************************************************)
PortSum(item) ==
    OrZero(item.remaining["port_klang"]) + OrZero(item.remaining["klia"])
    + OrZero(item.remaining["bukit_kayu_hitam"])

LedgerOf(db, item_id, port) == SumImported(PortRecords(db, item_id, port))

\* C1: after any sequence of commits and recalculations, every item's
\* remaining_quantity equals the sum of its three port remainders (a NULL
\* column counted as 0).  The original claim, refuted by a commit against an
\* item whose approved total differs from the sum of its station quantities.
C1_RemainingIsPortSum ==
    (lastOp.op \in {"commit", "edit", "delete"} /\ lastOp.err = "ok") =>
        \A i \in Items : OrZero(items[i].remaining_quantity) = PortSum(items[i])

\* C2: in every state, for each item and port the stored remaining_<port>
\* equals the port's approved quantity minus the quantities of the import
\* records stored for that (item, port) -- NULL counted as 0, as the
\* recalculation does -- and is never NULL where a quantity was approved.
C2_RemainingDerivableFromLedger ==
    \A i \in Items : \A p \in ImportPort :
        /\ OrZero(items[i].remaining[p])
              = OrZero(items[i].port_qty[p]) - LedgerOf(CurrentDb, i, p)
        /\ ~IsNone(items[i].port_qty[p]) => ~IsNone(items[i].remaining[p])

\* C2 witness: a port holds two records, one of them edited or deleted
\* around, and its remainder is below the approved quantity
C2_Witness ==
    \E i \in Items : \E p \in ImportPort :
        /\ lastOp.op \in {"edit", "delete"}
        /\ Cardinality(PortRecords(CurrentDb, i, p)) >= 1
        /\ ~IsNone(items[i].port_qty[p])
        /\ Val(items[i].remaining[p]) < Val(items[i].port_qty[p])

\* C4: a bulk commit in which some record fails persists nothing: the import
\* records and the items are as before the call.  The original claim.
C4_BulkAllOrNothing ==
    [][(lastOp'.op = "bulk" /\ lastOp'.err # "ok")
          => (records' = records /\ items' = items)]_vars

\* C5: in every state, a commit with allow_overdraw = false for an existing
\* item and a port whose current remaining minus the quantity is negative
\* raises InsufficientBalance and leaves the database as it was.
C5_OverdrawRejected ==
    \A import_data \in ImportRequests(Dates, ImportQtys) :
        LET i == import_data.certificate_item_id
            p == import_data.port
        IN  (/\ i \in Items
             /\ ~IsNone(items[i].remaining[p])
             /\ Val(items[i].remaining[p]) - import_data.quantity_imported < 0)
            => record_import(CurrentDb, import_data, FALSE)
                   = Failed("InsufficientBalance", CurrentDb)

\* C5 witness: a commit with overdraw disallowed was just rejected against a
\* port that earlier commits had depleted (remaining 0)
C5_Witness ==
    /\ lastOp.op = "commit"
    /\ ~lastOp.allow_overdraw
    /\ lastOp.err = "InsufficientBalance"
    /\ records # {}
    /\ \E i \in Items : items[i].remaining[lastOp.port] = Some(0)
                        /\ items[i].quantity_status = "depleted"

\* C6: a commit that succeeds never targets a port for which the item has
\* no approved quantity (such a commit must fail with InvalidPort).  The
\* original claim, refuted once a recalculation has stored 0 for the port.
C6_NullPortRejected ==
    (lastOp.op = "commit" /\ lastOp.err = "ok") =>
        \A r \in records :
            r.id = next_id - 1 => ~IsNone(items[r.certificate_item_id].port_qty[r.port])

\* C8: recalculating an item and port a second time changes nothing: from
\* every state, one recalculation reaches a fixed point of the recalculation.
Recalc(db, item_id, port) ==
    recalculate_item_remaining_quantities(
        recalculate_item_port_balances(db, item_id, port), item_id)

C8_RecalcIdempotent ==
    \A i \in Items : \A p \in ImportPort :
        LET once == Recalc(CurrentDb, i, p)
        IN  /\ Recalc(once, i, p) = once
            /\ recalculate_item_port_balances(once, i, p) = once

\* C8 witness: a recalculation has just run on a port whose two records were
\* committed out of date order
C8_Witness ==
    /\ lastOp.op = "recalc"
    /\ \E r1, r2 \in records :
          /\ r1.port = lastOp.port /\ r2.port = lastOp.port
          /\ r1.created_at < r2.created_at /\ r2.import_date < r1.import_date
          /\ r1.balance_before = r2.balance_after


\* deriveStatus(remaining, threshold), the reference of the specification
deriveStatus(remaining, threshold) ==
    IF IsNone(remaining) THEN "normal"
    ELSE IF Val(remaining) < 0 THEN "overdrawn"
    ELSE IF Val(remaining) = 0 THEN "depleted"
    ELSE IF Val(remaining) <= threshold THEN "warning"
    ELSE "normal"

\* the item's warning_threshold if set, otherwise the current default
ThresholdInForce(item) ==
    IF IsNone(item.warning_threshold) THEN Val(default_threshold)
    ELSE Val(item.warning_threshold)

StatusDerived ==
    \A i \in Items :
        items[i].quantity_status =
            deriveStatus(items[i].remaining_quantity, ThresholdInForce(items[i]))

\* C7 (as stated): once every stored quantity_status equals
\* deriveStatus(remaining_quantity, threshold in force), it stays so after any
\* commit, edit, delete, per-item threshold update or default-threshold update.
C7_StatusStaysDerived == [][StatusDerived => StatusDerived']_vars

\* C7 (amended): every request that writes an item row (a successful commit,
\* a recalculating edit, a delete, a per-item threshold update) leaves the
\* stored quantity_status equal to deriveStatus(remaining_quantity, threshold
\* in force); a default-threshold update writes no item row, so stored
\* statuses keep the value derived under the earlier default.
C7_StatusDerivedWhenItemWritten ==
    [][ /\ items' # items => StatusDerived'
        /\ lastOp'.op = "item_threshold" => StatusDerived'
        /\ lastOp'.op = "default_threshold" => items' = items ]_vars

\* a per-item threshold update has moved the status to warning
C7_Witness ==
    /\ lastOp.op = "item_threshold"
    /\ \E i \in Items :
          /\ items[i].warning_threshold = Some(MaxThreshold)
          /\ items[i].remaining_quantity = Some(MaxThreshold)
          /\ items[i].quantity_status = "warning"
          /\ \E r \in records : r.certificate_item_id = i

\* C9: every place that derives a status computes deriveStatus: null
\* remaining gives normal, negative overdrawn, zero depleted (also at
\* threshold 0), 0 < remaining <= threshold warning, otherwise normal.
C9_DerivationMatchesReference ==
    derivation.place # "none" =>
        derivation.status = deriveStatus(derivation.remaining, CaseThreshold)

\* the boundary remaining = threshold > 0, derived as warning
C9_Witness ==
    /\ derivation.place = "threshold"
    /\ derivation.remaining = Some(MaxThreshold)
    /\ derivation.warning_threshold = Some(MaxThreshold)
    /\ derivation.status = "warning"

\* C3: two commits running concurrently against one item and port
\* serialize: of the two records they create, the later one's balance_before
\* is the earlier one's balance_after (they never carry the same balance_before).
C3_ConcurrentCommitsSerialize ==
    (\A s \in Sessions : sessions[s].pc = "done") =>
        \A r1, r2 \in records :
            (/\ r1.certificate_item_id = r2.certificate_item_id
             /\ r1.port = r2.port
             /\ r1.created_at < r2.created_at)
            => r2.balance_before = r1.balance_after

MatchedPositions == {i \in 1..Len(matches) : Matched(matches[i])}

\* C10: in every call of match_items no two matched MatchResults reference
\* the same certificate item (index of mida_items), and the certificate items
\* claimed so far are exactly the used ones, never offered again.
C10_MatchingIsOneToOne ==
    /\ \A i, j \in MatchedPositions : i # j => matches[i].mida_idx # matches[j].mida_idx
    /\ used_mida_indices = {matches[i].mida_idx : i \in MatchedPositions}
    /\ Len(matches) < Len(invoice_items) => CurrentBest.idx \notin used_mida_indices

\* two invoice items with the same normalized name: the first took the only
\* certificate item of that name, the second was left without it
C10_Witness ==
    /\ Len(matches) = 2
    /\ normalize(invoice_items[1].item_name) = normalize(invoice_items[2].item_name)
    /\ Matched(matches[1])
    /\ matches[1].is_exact_match
    /\ ~Matched(matches[2])
CandidateScore(invoice_item, mida_item) ==
    calculate_similarity(normalize(invoice_item.item_name), normalize(mida_item.item_name))

CandidateIsExact(invoice_item, mida_item) ==
    normalize(invoice_item.item_name) = normalize(mida_item.item_name)

\* the unused certificate items that pass the mode/threshold filter
Candidates(invoice_item, mida_list, used, mode, threshold) ==
    {idx \in (1..Len(mida_list)) \ used :
        /\ normalize(invoice_item.item_name) # <<>>
        /\ normalize(mida_list[idx].item_name) # <<>>
        /\ \/ CandidateIsExact(invoice_item, mida_list[idx])
           \/ /\ mode = "fuzzy"
              /\ ~ScoreLess(CandidateScore(invoice_item, mida_list[idx]), <<threshold, 100>>)}

\* candidate c1 comes strictly before candidate c2 in the order of the claim
RanksBefore(invoice_item, mida_list, c1, c2) ==
    LET s1 == CandidateScore(invoice_item, mida_list[c1])
        s2 == CandidateScore(invoice_item, mida_list[c2])
        e1 == CandidateIsExact(invoice_item, mida_list[c1])
        e2 == CandidateIsExact(invoice_item, mida_list[c2])
    IN  \/ ScoreLess(s2, s1)
        \/ ScoreEqual(s1, s2) /\ e1 /\ ~e2
        \/ ScoreEqual(s1, s2) /\ e1 = e2 /\ mida_list[c1].line_no < mida_list[c2].line_no

\* the certificate items used before the n-th invoice item was matched
UsedBefore(n) ==
    {matches[i].mida_idx : i \in {j \in 1..(n - 1) : Matched(matches[j])}}

SelectedIsMaximalAmong(n, cands) ==
    IF cands = {} THEN ~Matched(matches[n])
    ELSE /\ Matched(matches[n])
         /\ matches[n].mida_idx \in cands
         /\ \A o \in cands :
               ~RanksBefore(invoice_items[n], mida_items, o, matches[n].mida_idx)
         /\ matches[n].match_score
               = CandidateScore(invoice_items[n], mida_items[matches[n].mida_idx])
         /\ matches[n].is_exact_match
               = CandidateIsExact(invoice_items[n], mida_items[matches[n].mida_idx])

C12_BestIsMaximalCandidate ==
    \A n \in 1..Len(matches) :
        SelectedIsMaximalAmong(n, Candidates(invoice_items[n], mida_items, UsedBefore(n),
                                             match_mode, match_threshold))

(***************************************************************************)
(* C13: every match returned by match_items is admissible: either the      *)
(* normalized invoice name equals the normalized certificate item name,    *)
(* and then the score is 1.0 and is_exact_match is true, or the mode is    *)
(* fuzzy, is_exact_match is false and the score is at least the threshold. *)
(* In exact mode no invoice item is matched to a certificate item with a   *)
(* different normalized name.                                              *)
(***************************************************************************)
Admissible(m) ==
    IF normalize(m.invoice_item.item_name) = normalize(Val(m.mida_item).item_name)
    THEN m.match_score = <<1, 1>> /\ m.is_exact_match
    ELSE /\ match_mode = "fuzzy"
         /\ ~m.is_exact_match
         /\ ~ScoreLess(m.match_score, <<match_threshold, 100>>)

C13_MatchesAreAdmissible ==
    \A n \in 1..Len(matches) : Matched(matches[n]) => Admissible(matches[n])

\* one call at threshold 0.5 returned an exact match and a fuzzy match
C13_Witness ==
    /\ match_threshold = 50
    /\ MatchReturned
    /\ \E i, j \in 1..Len(matches) :
          /\ Matched(matches[i]) /\ matches[i].is_exact_match
          /\ Matched(matches[j]) /\ ~matches[j].is_exact_match

(***************************************************************************)
(* C16: match_items returns exactly one MatchResult per invoice item, in   *)
(* input order (matches[i].invoice_item is invoice_items[i]); an invoice   *)
(* item with no selected candidate, including one whose name normalizes to *)
(* empty, is returned as unmatched with mida_item None and no warnings;    *)
(* and matched_count + unmatched_count = total_invoice_items, the number   *)
(* of invoice items.                                                       *)
(***************************************************************************)
UnmatchedResults == SelectSeq(matches, LAMBDA m : ~Matched(m))

C16_OneResultPerInvoiceItem ==
    /\ Len(matches) <= Len(invoice_items)
    /\ \A n \in 1..Len(matches) :
          /\ matches[n].invoice_item = invoice_items[n]
          /\ normalize(invoice_items[n].item_name) = <<>> => ~Matched(matches[n])
          /\ ~Matched(matches[n]) => /\ matches[n].mida_idx = 0
                                     /\ matches[n].warnings = <<>>
                                     /\ matches[n].match_score = <<0, 1>>
                                     /\ ~matches[n].is_exact_match
    /\ unmatched = [i \in 1..Len(UnmatchedResults) |-> UnmatchedResults[i].invoice_item]
    /\ MatchReturned =>
          /\ Len(MatchingResult.matches) = Len(invoice_items)
          /\ MatchingResult.total_invoice_items = Len(invoice_items)
          /\ MatchingResult.matched_count + MatchingResult.unmatched_count
                = MatchingResult.total_invoice_items

\* a call returned with a matched item after an item whose name is empty
C16_Witness ==
    /\ MatchReturned
    /\ Len(matches) = 2
    /\ normalize(invoice_items[1].item_name) = <<>>
    /\ ~Matched(matches[1])
    /\ Matched(matches[2])
    /\ MatchingResult.matched_count = 1

(***************************************************************************)
(* C17: once a certificate has been confirmed (confirm_certificate set its *)
(* status to expired), every later update of it (update_draft_by_id) is    *)
(* rejected with a conflict error (HTTP 409) and leaves the certificate    *)
(* header and its items unchanged; confirming again is idempotent and the  *)
(* certificate never leaves the confirmed state.                           *)
(* As stated, with the conflict error for every later update:              *)
(***************************************************************************)
\* the row of a certificate whose status confirm_certificate has written
ConfirmedByRequest(id) ==
    /\ ~IsNone(certificates[id])
    /\ Val(certificates[id]).status = "expired"
    /\ Val(certificates[id]).updated_at > 0

RequestOn(op, id) == lastCertOp'.op = op /\ lastCertOp'.certificate_id = id

IsExpired(id) ==
    /\ ~IsNone(certificates[id])
    /\ Val(certificates[id]).status = "expired"

IsPreviewStep == lastOp'.op \in {"preview", "preview_bulk"}

C14_PreviewIsSideEffectFree ==
    [][IsPreviewStep =>
          /\ records' = records
          /\ next_id' = next_id
          /\ items' = items
          /\ default_threshold' = default_threshold]_vars

\* a preview that raised InvalidPort, run on a ledger that holds records
C14_Witness ==
    /\ lastOp.op = "preview"
    /\ lastOp.err = "InvalidPort"
    /\ records # {}

(***************************************************************************)
(* C15: preview predicts commit: in any committed state, for any request   *)
(* whose commit with overdraw allowed succeeds, preview_import reports     *)
(* current_balance, balance_after_import, new_status and the will_* flags  *)
(* equal to the balance_before, balance_after, new_status and triggered_*  *)
(* flags of record_import from the same state; and preview raises          *)
(* InvalidPort exactly when commit does.                                   *)
(***************************************************************************)
PreviewAgreesWithCommit(db, import_data) ==
    LET previewed == preview_import(db, import_data)
        committed == record_import(db, import_data, TRUE)
    IN  /\ (previewed.err = "InvalidPort") <=> (committed.err = "InvalidPort")
        /\ committed.err = "ok" =>
             LET result  == ImportResult(db, import_data, committed)
                 preview == previewed.preview
             IN  /\ previewed.err = "ok"
                 /\ preview.current_balance = result.balance_before
                 /\ preview.balance_after_import = result.balance_after
                 /\ preview.new_status = result.new_status
                 /\ preview.will_trigger_warning = result.triggered_warning
                 /\ preview.will_deplete = result.triggered_depletion
                 /\ preview.will_overdraw = result.triggered_overdraw

C15_PreviewPredictsCommit ==
    \A import_data \in ImportRequests({MaxDate}, ImportQtys) :
        PreviewAgreesWithCommit(CurrentDb, import_data)


(***************************************************************************)
(* C18: a successful commit of quantity q for (item, port) creates one     *)
(* ImportRecord whose balance_before is the item's remaining_<port> right  *)
(* before the commit and whose balance_after is balance_before - q, and    *)
(* after the commit the stored remaining_<port> equals that balance_after. *)
(***************************************************************************)
IsSuccessfulCommit ==
    /\ lastOp'.op = "commit"
    /\ lastOp'.err = "ok"
    /\ next_id' # next_id

CommitRecordsTheBalance(record) ==
    LET before == items[record.certificate_item_id].remaining[record.port]
        after  == items'[record.certificate_item_id].remaining[record.port]
    IN  /\ record.id = next_id
        /\ ~IsNone(before)
        /\ record.balance_before = Val(before)
        /\ record.balance_after = record.balance_before - record.quantity_imported
        /\ after = Some(record.balance_after)

C18_CommitRecordsTheBalance ==
    [][IsSuccessfulCommit =>
          \E record \in records' \ records :
              /\ records' = records \cup {record}
              /\ CommitRecordsTheBalance(record)]_vars

\* a successful commit made after an earlier record was deleted
C18_Witness ==
    /\ lastOp.op = "commit"
    /\ lastOp.err = "ok"
    /\ \E r \in records : r.id = MaxRecords /\ r.id # Cardinality(records)


(***************************************************************************)
(* C19: after recalculate_item_port_balances(item, port) the records of    *)
(* the pair, taken by import_date then created_at, form a running chain    *)
(* from the port's approved quantity: the first balance_before is the      *)
(* approved quantity, every balance_after is balance_before minus          *)
(* quantity_imported, every later balance_before is the preceding          *)
(* balance_after; records of other items and ports are not modified.       *)
(***************************************************************************)
IsRunningChain(ordered, approved_qty) ==
    \A k \in 1..Len(ordered) :
        /\ ordered[k].balance_before =
              IF k = 1 THEN approved_qty ELSE ordered[k - 1].balance_after
        /\ ordered[k].balance_after =
              ordered[k].balance_before - ordered[k].quantity_imported

RecalculatedPair(before, after, item_id, port) ==
    /\ IsRunningChain(OrderRecords(PortRecords(after, item_id, port)),
                      OrZero(after.items[item_id].port_qty[port]))
    /\ after.records \ PortRecords(after, item_id, port)
          = before.records \ PortRecords(before, item_id, port)
    /\ {[r EXCEPT !.balance_before = 0, !.balance_after = 0] :
            r \in PortRecords(after, item_id, port)}
          = {[r EXCEPT !.balance_before = 0, !.balance_after = 0] :
                r \in PortRecords(before, item_id, port)}

PairReplayed(item_id, port) ==
    LET mine     == {r \in records' : r.certificate_item_id = item_id /\ r.port = port}
        approved == OrZero(items'[item_id].port_qty[port])
    IN  /\ IsRunningChain(OrderRecords(mine), approved)
        /\ items'[item_id].remaining[port] = Some(approved - SumImported(mine))

ItemRederived(item_id) ==
    LET item      == items'[item_id]
        threshold == IF IsNone(item.warning_threshold)
                     THEN IF IsNone(default_threshold') THEN DEFAULT_WARNING_THRESHOLD
                          ELSE Val(default_threshold')
                     ELSE Val(item.warning_threshold)
    IN  /\ \A p \in ImportPort :
              item.remaining[p] =
                  Some(OrZero(item.port_qty[p])
                       - SumImported({r \in records' : r.certificate_item_id = item_id
                                                        /\ r.port = p}))
        /\ item.remaining_quantity =
              Some(Val(item.remaining["port_klang"]) + Val(item.remaining["klia"])
                   + Val(item.remaining["bukit_kayu_hitam"]))
        /\ item.quantity_status = deriveStatus(item.remaining_quantity, threshold)

EditedFrom(old, new) ==
    /\ new.id = old.id
    /\ \/ new.quantity_imported # old.quantity_imported
       \/ new.import_date # old.import_date
       \/ new.port # old.port

C20_EditAndDeleteReplay ==
    [][/\ lastOp'.op = "edit" =>
             \A old \in records : \A new \in records' :
                 EditedFrom(old, new) =>
                     /\ PairReplayed(old.certificate_item_id, old.port)
                     /\ PairReplayed(new.certificate_item_id, new.port)
                     /\ ItemRederived(old.certificate_item_id)
       /\ lastOp'.op = "delete" =>
             \A old \in records :
                 (\A r \in records' : r.id # old.id) =>
                     /\ PairReplayed(old.certificate_item_id, old.port)
                     /\ ItemRederived(old.certificate_item_id)]_vars

\* an edit has run and left a record on each of two ports of one item, each
\* record at the head of its port's chain
C20_Witness ==
    /\ lastOp.op = "edit"
    /\ \E a, b \in records :
          /\ a.certificate_item_id = b.certificate_item_id
          /\ a.port # b.port
          /\ a.balance_before = OrZero(items[a.certificate_item_id].port_qty[a.port])
          /\ b.balance_before = OrZero(items[b.certificate_item_id].port_qty[b.port])


(***************************************************************************)
(* C21: for a matched pair with compatible UOMs check_quantity_warnings    *)
(* emits at most one quantity warning, chosen in this order: remaining     *)
(* <= 0 gives 'No remaining quantity' (error); else effective quantity >   *)
(* remaining gives 'Exceeds remaining approved quantity' (error); else     *)
(* effective / remaining >= 0.90 gives 'Near limit' (info); else none.     *)
(* The match is returned as matched in all four cases.                     *)
(***************************************************************************)
\* the loop of match_items has just appended a result for a match it found
AppendedMatch ==
    /\ Len(matches') = Len(matches) + 1
    /\ Matched(matches'[Len(matches')])

SameNormalizedUom(m) ==
    normalize_uom(m.invoice_item.quantity_uom) = normalize_uom(Val(m.mida_item).uom)

ExpectedQuantityWarnings(effective, remaining) ==
    IF remaining <= 0
    THEN <<[reason |-> "No remaining quantity", severity |-> "error"]>>
    ELSE IF effective > remaining
    THEN <<[reason |-> "Exceeds remaining approved quantity", severity |-> "error"]>>
    ELSE IF 100 * effective >= 90 * remaining
    THEN <<[reason |-> "Near limit", severity |-> "info"]>>
    ELSE <<>>

C21_QuantityWarningOrder ==
    [][AppendedMatch =>
          LET m == matches'[Len(matches')]
          IN  SameNormalizedUom(m) =>
                 m.warnings = ExpectedQuantityWarnings(
                                  effective_quantity(m.invoice_item),
                                  remaining_qtys[m.mida_idx])]_vars

\* one call has returned a match with each of the two error warnings
C21_Witness ==
    /\ MatchReturned
    /\ \E i, j \in 1..Len(matches) :
          /\ Matched(matches[i]) /\ Matched(matches[j])
          /\ SameNormalizedUom(matches[i]) /\ SameNormalizedUom(matches[j])
          /\ matches[i].warnings = <<MatchWarning("No remaining quantity", "error")>>
          /\ matches[j].warnings =
                <<MatchWarning("Exceeds remaining approved quantity", "error")>>


(***************************************************************************)
(* C22: when the invoice item's UOM and the matched certificate item's UOM *)
(* are incompatible (different normalized forms), the match carries        *)
(* exactly one warning, 'UOM mismatch' with severity warning, no quantity  *)
(* warning is emitted whatever the quantities are, and the simulated       *)
(* remaining quantity of that certificate item is not deducted.            *)
(***************************************************************************)
C22_UomMismatchSkipsQuantities ==
    [][AppendedMatch =>
          LET m == matches'[Len(matches')]
          IN  ~SameNormalizedUom(m) =>
                 /\ m.warnings = <<[reason |-> "UOM mismatch", severity |-> "warning"]>>
                 /\ remaining_qtys'[m.mida_idx] = remaining_qtys[m.mida_idx]
                 /\ m.remaining_qty = remaining_qtys[m.mida_idx]]_vars


(***************************************************************************)
(* C23: the simulated remaining quantity is floored at zero: for every     *)
(* matched MatchResult (certificate items having approved quantity >= 0)   *)
(* remaining_qty >= 0, and with compatible UOMs it equals max(0, remaining *)
(* before the match - effective invoice quantity), also when the invoice   *)
(* quantity exceeds the remaining quantity.                                *)
(***************************************************************************)
FlooredAtZero(qty) == IF qty < 0 THEN 0 ELSE qty

C23_RemainingFlooredAtZero ==
    [][AppendedMatch =>
          LET m      == matches'[Len(matches')]
              before == remaining_qtys[m.mida_idx]
          IN  /\ m.remaining_qty >= 0
              /\ remaining_qtys'[m.mida_idx] = m.remaining_qty
              /\ SameNormalizedUom(m) =>
                    m.remaining_qty =
                        FlooredAtZero(before - effective_quantity(m.invoice_item))]_vars

\* a match with compatible UOMs whose invoice quantity exceeds what remains
\* of a certificate item that has something left
C23_Witness ==
    \E i \in 1..Len(matches) :
        /\ Matched(matches[i])
        /\ SameNormalizedUom(matches[i])
        /\ Val(matches[i].mida_item).approved_quantity > 0
        /\ effective_quantity(matches[i].invoice_item)
              > Val(matches[i].mida_item).approved_quantity
        /\ matches[i].remaining_qty = 0


(***************************************************************************)
(* C24: in every state reached by commits with arbitrary import dates      *)
(* (also a commit dated before records already stored for the item and     *)
(* port), the records of each (item, port) ordered by import_date then     *)
(* created_at form a consistent chain: each balance_before is the          *)
(* preceding balance_after (the approved port quantity for the first), so  *)
(* a recalculation run in that state would change no stored balance.       *)
(***************************************************************************)
C24_CommitsKeepDateOrderedChain ==
    \A i \in Items : \A p \in ImportPort :
        /\ IsRunningChain(OrderRecords(PortRecords(CurrentDb, i, p)),
                          OrZero(items[i].port_qty[p]))
        /\ recalculate_item_port_balances(CurrentDb, i, p).records = records


(***************************************************************************)
(* C25: if every commit against a certificate item is made with            *)
(* allow_overdraw=false, remaining_<port> of that item is never negative   *)
(* in any reachable state, also in states reached by two or more commits   *)
(* for the same item and port that run concurrently.                       *)
(***************************************************************************)
CommitsForbidOverdraw ==
    \A s \in Sessions :
        sessions[s].pc \in {"read", "inserted", "done"} => ~sessions[s].allow_overdraw

C25_NoOverdrawWithoutPermission ==
    CommitsForbidOverdraw =>
        \A i \in Items : \A p \in ImportPort :
            IF IsNone(items[i].remaining[p]) THEN TRUE
            ELSE Val(items[i].remaining[p]) >= 0


(***************************************************************************)
(* C26: a per-item threshold update (update_item_threshold) running        *)
(* concurrently with a commit or a record edit/delete on the same item     *)
(* never leaves a stale status: once both have finished, quantity_status   *)
(* equals deriveStatus of the final remaining_quantity and the final       *)
(* threshold, in every interleaving.                                       *)
(***************************************************************************)
C26_ThresholdUpdateLeavesNoStaleStatus ==
    (threshold_session.pc = "done" /\ lastOp.op = "item_threshold") =>
        LET item == items[threshold_session.item_id]
        IN  item.quantity_status =
                deriveStatus(item.remaining_quantity, ThresholdInForce(item))


(***************************************************************************)
(* C27: in every state reached by any sequence of commits, record edits    *)
(* (including edits that change a record's port) and record deletes, no    *)
(* ImportRecord exists for a (certificate item, port) pair for which the   *)
(* item's approved port quantity is null.                                  *)
(***************************************************************************)
C27_NoRecordOnUnapprovedPort ==
    \A r \in records : ~IsNone(items[r.certificate_item_id].port_qty[r.port])


(***************************************************************************)
(* C28: an invoice item with a non-empty normalized name is left unmatched *)
(* only if no unused certificate item is an admissible candidate: whenever *)
(* an unused certificate item has an equal normalized name or, in fuzzy    *)
(* mode, a similarity score >= threshold, find_best_match selects a        *)
(* candidate; for every threshold in [0,1], threshold 0 with a candidate   *)
(* of score 0 included.                                                    *)
(***************************************************************************)
C28_UnmatchedOnlyWithoutCandidate ==
    \A n \in 1..Len(matches) :
        (~Matched(matches[n]) /\ normalize(invoice_items[n].item_name) # <<>>) =>
            Candidates(invoice_items[n], mida_items, UsedBefore(n),
                       match_mode, match_threshold) = {}


(***************************************************************************)
(* C29: greedy prefix property: for any invoice list L and any k <= len(L) *)
(* the first k MatchResults of match_items(L, certs, mode, threshold) are  *)
(* the results of match_items(L[0..k), certs, mode, threshold); a result   *)
(* depends only on the invoice items before it, and an earlier invoice     *)
(* item keeps its certificate item even when a later one would score       *)
(* higher against it.                                                      *)
(***************************************************************************)
Prefix(seq, k) == SubSeq(seq, 1, k)

MatchesOf(invoices) ==
    match_items(invoices, mida_items, match_mode, match_threshold).matches

C29_GreedyPrefix ==
    /\ \A k \in 0..Len(invoice_items) :
          Prefix(MatchesOf(invoice_items), k) = MatchesOf(Prefix(invoice_items, k))
    /\ matches = MatchesOf(Prefix(invoice_items, Len(matches)))

\* a returned call in which the first invoice item holds, by a fuzzy match, the
\* certificate item that the second invoice item names exactly
C29_Witness ==
    /\ MatchReturned
    /\ Len(matches) = 2
    /\ Matched(matches[1])
    /\ ~matches[1].is_exact_match
    /\ CandidateIsExact(invoice_items[2], Val(matches[1].mida_item))
    /\ ~Matched(matches[2])


(***************************************************************************)
(* C30: within one match_items call the remaining quantity against which   *)
(* a match's quantity warnings are checked is the matched certificate      *)
(* item's seeded value (MidaItem.remaining_quantity, the approved          *)
(* quantity): a certificate item is matched at most once, so the           *)
(* deduction made for one invoice item changes neither the warnings nor    *)
(* the remaining_qty of any other invoice item.                            *)
(***************************************************************************)
SeededRemaining(mida_item) == mida_item.approved_quantity

C30_WarningsCheckedAgainstSeed ==
    [][AppendedMatch =>
          LET m         == matches'[Len(matches')]
              mida_item == Val(m.mida_item)
          IN  /\ remaining_qtys[m.mida_idx] = SeededRemaining(mida_item)
              /\ m.warnings = check_quantity_warnings(m.invoice_item, mida_item,
                                                      SeededRemaining(mida_item))
              /\ m.remaining_qty \in {SeededRemaining(mida_item),
                                      FlooredAtZero(SeededRemaining(mida_item)
                                          - effective_quantity(m.invoice_item))}
              /\ \A idx \in DOMAIN remaining_qtys :
                    idx # m.mida_idx => remaining_qtys'[idx] = remaining_qtys[idx]
              /\ Prefix(matches', Len(matches)) = matches]_vars

\* a returned call with two matches whose first one deducted from its
\* certificate item, the second carrying the result of its own seed
C30_Witness ==
    /\ MatchReturned
    /\ Len(matches) = 2
    /\ Matched(matches[1]) /\ Matched(matches[2])
    /\ SameNormalizedUom(matches[1]) /\ SameNormalizedUom(matches[2])
    /\ matches[1].remaining_qty < SeededRemaining(Val(matches[1].mida_item))
    /\ SeededRemaining(Val(matches[2].mida_item)) > 0
    /\ matches[2].warnings # <<>>

====
